---------------------------- MODULE Spec2Model ----------------------------
(***************************************************************************)
(* A model of tree_inventory: the per-directory checksum records built by  *)
(* --calculate (fresh, default, continue and targeted passes, with the      *)
(* periodic checkpoints an interrupted pass leaves behind), the record     *)
(* diff of --compare and the record-driven synchronisation of --update.    *)
(*                                                                         *)
(* Two scopes, "A" and "B", each a directory tree with at most one store   *)
(* file (tree_checksum.json) at its scope root.  A path is the sequence of *)
(* entry names below the scope root.                                       *)
(*                                                                         *)
(* hashlib.md5 is modelled as an ideal (collision-free) hash: the state of *)
(* a hash object is the sequence of tokens fed to update(), and its        *)
(* hexdigest is that sequence in brackets.  Feeding a hexdigest to another *)
(* hash concatenates it, as update() concatenates bytes.                   *)
(***************************************************************************)
EXTENDS Integers, Sequences, FiniteSets, TLC

VARIABLES
    disk,   \* disk[s][p]: the entry at path p of scope s: "none", "dir" or a file's content
    store,  \* store[s]: the store file of scope s: [exists, root], root the persisted Record tree
    now,    \* the clock: datetime.now() is now + 1
    edits,  \* the number of filesystem edits made by the user so far
    detail_files, \* the --detail-files option of the run
    clean,  \* clean[s]: a full calculation of s completed and s's tree was not edited since
    intact, \* intact[s]: every pass on the store of s so far ran to its end without an error
    last    \* the last operation: its arguments and its outcome

vars == <<disk, store, now, edits, clean, intact, last, detail_files>>

(***************************************************************************)
(* Bounds of the model.                                                    *)
(***************************************************************************)
MaxEdits == 2    \* the number of filesystem edits of a behaviour
MaxClock == 3    \* the last reading of the clock a pass is made at

Sides == {"A", "B"}
Names == {"a", "b", "c", "d"}
Contents == {"c1", "c2"}
STORE == "tree_checksum.json"

\* The code-point order of the names, the order list.sort() sorts by.
Rank(name) ==
    CASE name = "a" -> 1
      [] name = "b" -> 2
      [] name = "c" -> 3
      [] name = "d" -> 4
      [] OTHER -> 5

Parent(p) == SubSeq(p, 1, Len(p) - 1)
IsPrefix(p, q) == Len(p) <= Len(q) /\ SubSeq(q, 1, Len(p)) = p

\* A disk is a function from the paths of its entries to "dir" or, for a
\* file, its content; the scope root is a directory.
EntryAt(d, p) == IF p \in DOMAIN d THEN d[p] ELSE "none"
IsDir(d, p) == p = <<>> \/ EntryAt(d, p) = "dir"
IsFile(d, p) == p # <<>> /\ EntryAt(d, p) \in Contents

\* d with the entry at p set to e ("none": removed); a removed or replaced
\* directory goes with everything below it.
WriteEntry(d, p, e) ==
    LET kept == {q \in DOMAIN d : ~IsPrefix(p, q)}
    IN  [q \in kept \cup (IF e = "none" THEN {} ELSE {p}) |-> IF q = p THEN e ELSE d[q]]

(***************************************************************************)
(* hashlib.md5                                                             *)
(***************************************************************************)
NoHash == <<>>                        \* the field is absent from the Record
Md5New == <<>>                        \* hashlib.md5()
Update(h, bytes) == h \o bytes        \* h.update(bytes)
HexDigest(h) == <<"(">> \o h \o <<")">>
Encode(name) == <<name>>              \* name.encode("utf-8")

\* The content of the file `name` of directory dir; the content of the
\* store file of the scope root is the opaque token "json".
FileContent(d, dir, name) ==
    IF name = STORE /\ dir = <<>> THEN "json" ELSE d[Append(dir, name)]

\* calculate_md5: the hash object of the file's bytes.
calculate_md5(d, dir, name) == Update(Md5New, <<FileContent(d, dir, name)>>)

(***************************************************************************)
(* calculate_md5_internal: the chunked read of one file with its retries.  *)
(* A file is the sequence of its bytes.  Sizes are in units of the         *)
(* smallest block: the first block is BlockSize units, a block shrinks to  *)
(* no less than MinBlockSize, and Gigabyte units earn one more retry.      *)
(* `fails` is the set of the calls of f.read(), counted from 1 over the    *)
(* whole of the hashing, that raise OSError(22): a failed read consumes    *)
(* nothing and leaves the bytes of the file in place.                      *)
(***************************************************************************)
AUTO == -1            \* n_retries is None
BlockSize == 4        \* block_size = 1 << 20
MinBlockSize == 1     \* 4096
Gigabyte == 2         \* 1 << 30

MaxSize == 3          \* the size of a file, in units
MaxReads == 5         \* the calls of f.read() that may fail are among the first MaxReads
MaxRetries == 3       \* the n_retries a caller passes

Bytes == {"x", "y"}
Files == UNION {[1..n -> Bytes] : n \in 0..MaxSize}

Min(a, b) == IF a <= b THEN a ELSE b

\* The retry takes the file up from its start.
ResumeAt_start(position) == 0

\* f.seek(position, 0): a new attempt takes the file up where the last
\* chunk ended.
ResumeAt(position) == position

\* The retries never run out.
WithinBudget_always(retry, retries) == TRUE

\* if retry <= retries: ... continue
WithinBudget(retry, retries) == retry <= retries

\* The count of the failures set back by a read that succeeds.
RetryAfterRead_reset(retry) == 0

\* position += len(chunk); hash_md5.update(chunk): a read that succeeds
\* leaves retry as it is.
RetryAfterRead(retry) == retry

\* block_size >>= 1, and no less than the smallest block
Shrunk(block_size) ==
    IF block_size \div 2 < MinBlockSize THEN MinBlockSize ELSE block_size \div 2

\* retries: 1 until the first open that succeeds has read the size of the
\* file (sized), from then on n_retries, which is 1 + (size // (1 << 30))
\* when the caller gave none.
Retries(file, n_retries, sized) ==
    IF ~sized THEN 1
    ELSE IF n_retries = AUTO THEN 1 + (Len(file) \div Gigabyte) ELSE n_retries

\* The loops of calculate_md5_internal from the state st = [at (where f is),
\* position, block_size, retry, sized (size is not None), hash_md5, opened
\* (the calls of _open_fcn so far), reads (the calls of f.read() so far),
\* chunks (the chunks folded into the hash: [at, n])].  opens and fails are
\* the calls of _open_fcn and of f.read() that raise OSError(22).
RECURSIVE OpenLoop(_, _, _, _, _)
RECURSIVE ReadLoop(_, _, _, _, _)

\* except OSError as ose: if ose.errno == 22: ...
Failed(file, n_retries, opens, fails, st) ==
    IF WithinBudget(st.retry + 1, Retries(file, n_retries, st.sized))
    THEN OpenLoop(file, n_retries, opens, fails,
                  [st EXCEPT !.retry = @ + 1, !.block_size = Shrunk(@)])
    ELSE [status |-> "OSError", hash |-> NoHash, retry |-> st.retry + 1,
          opened |-> st.opened, reads |-> st.reads, chunks |-> st.chunks]

\* while True: try: with _open_fcn(pathname, "rb") as f: ...
\* f.seek(position, 0)
OpenLoop(file, n_retries, opens, fails, st) ==
    LET opened == [st EXCEPT !.opened = @ + 1]
    IN  IF (st.opened + 1) \in opens
        THEN Failed(file, n_retries, opens, fails, opened)
        ELSE ReadLoop(file, n_retries, opens, fails,
                      [opened EXCEPT !.sized = TRUE, !.at = ResumeAt(st.position)])

\* while True: chunk = f.read(block_size) ...
ReadLoop(file, n_retries, opens, fails, st) ==
    LET chunk == SubSeq(file, st.at + 1, Min(st.at + st.block_size, Len(file)))
        read == [st EXCEPT !.reads = @ + 1]
    IN  IF (st.reads + 1) \in fails
        THEN Failed(file, n_retries, opens, fails, read)
        ELSE IF chunk = <<>>
        THEN [status |-> "ok", hash |-> st.hash_md5, retry |-> st.retry,
              opened |-> st.opened, reads |-> read.reads, chunks |-> st.chunks]
        ELSE ReadLoop(file, n_retries, opens, fails,
                      [read EXCEPT !.at = @ + Len(chunk),
                                   !.position = @ + Len(chunk),
                                   !.retry = RetryAfterRead(@),
                                   !.hash_md5 = Update(@, chunk),
                                   !.chunks = Append(@, [at |-> st.at, n |-> Len(chunk)])])

\* calculate_md5_internal with an _open_fcn whose calls in opens fail.
calculate_md5_internal_with(file, n_retries, opens, fails) ==
    OpenLoop(file, n_retries, opens, fails,
             [at |-> 0, position |-> 0, block_size |-> BlockSize, retry |-> 0,
              sized |-> FALSE, hash_md5 |-> Md5New, opened |-> 0, reads |-> 0,
              chunks |-> <<>>])

\* calculate_md5_internal with an _open_fcn that opens the file every time.
calculate_md5_internal(file, n_retries, fails) ==
    calculate_md5_internal_with(file, n_retries, {}, fails)

\* calculate_md5(dirname, fname, n_retries, _open_fcn) with an _open_fcn of
\* the caller's: calculate_md5_internal, an exception of which is raised
\* again as a RuntimeError.
calculate_md5_open_fcn(file, n_retries, fails) ==
    LET r == calculate_md5_internal(file, n_retries, fails)
    IN  IF r.status = "ok" THEN r ELSE [r EXCEPT !.status = "RuntimeError"]

\* The same with an _open_fcn whose calls in opens fail.
calculate_md5_open_fcn_with(file, n_retries, opens, fails) ==
    LET r == calculate_md5_internal_with(file, n_retries, opens, fails)
    IN  IF r.status = "ok" THEN r ELSE [r EXCEPT !.status = "RuntimeError"]

(***************************************************************************)
(* Records.  A dict is a sequence of [k, v] pairs in insertion order, the  *)
(* order Python iterates it in and json.dump / json.load preserve.         *)
(***************************************************************************)
EmptyRec ==
    [md5 |-> NoHash,      \* "MD5"
     fmd5 |-> NoHash,     \* "MD5-files_only"
     n |-> -1,            \* "n_files" (-1: absent)
     subs |-> <<>>,       \* "subdirectories" (absent and {} behave alike)
     hasfl |-> FALSE,     \* "file-listing" is present
     fl |-> <<>>,         \* "file-listing": name -> content hash
     cat |-> 0,           \* "calculated_at" (0: absent)
     size |-> -1]         \* "size" (-1: absent)

Keys(dict) == {dict[i].k : i \in 1..Len(dict)}
HasKey(dict, key) == key \in Keys(dict)
GetKey(dict, key) == dict[CHOOSE i \in 1..Len(dict) : dict[i].k = key].v
\* dict[key] = value: an existing key keeps its place, a new key goes last.
PutKey(dict, key, value) ==
    IF HasKey(dict, key)
    THEN [i \in 1..Len(dict) |-> IF dict[i].k = key THEN [k |-> key, v |-> value] ELSE dict[i]]
    ELSE Append(dict, [k |-> key, v |-> value])
KeySeq(dict) == [i \in 1..Len(dict) |-> dict[i].k]

\* record["MD5"]: reading the key of a Record that lacks it raises KeyError;
\* a hash fed with such a read would hold this token.
ReadMD5(record) == IF record.md5 = NoHash THEN <<"KeyError">> ELSE record.md5

\* The Record at path p below root (p resolves in root).
RECURSIVE RecAt(_, _)
RecAt(root, p) ==
    IF p = <<>> THEN root ELSE RecAt(GetKey(root.subs, Head(p)), Tail(p))

\* Every segment of p is a key of the subdirectories of the Record before it.
RECURSIVE Resolves(_, _)
Resolves(root, p) ==
    \/ p = <<>>
    \/ /\ HasKey(root.subs, Head(p))
       /\ Resolves(GetKey(root.subs, Head(p)), Tail(p))

\* The step of the descent that takes the first subdirectory's Record,
\* whatever the segment.
next_record_first(base_record, next_target) == base_record.subs[1].v

\* next_record = base_record["subdirectories"][next_target]
next_record(base_record, next_target) == GetKey(base_record.subs, next_target)

\* descend_toward(target, base_record): the Records below base_record on
\* the way to target, or the error raised for a segment that is no key of
\* the subdirectories reached.
RECURSIVE descend_toward(_, _)
descend_toward(target, base_record) ==
    IF ~HasKey(base_record.subs, target[1])
    THEN [status |-> "StaleRecord", records |-> <<>>]
    ELSE IF Len(target) = 1
    THEN [status |-> "ok", records |-> <<next_record(base_record, target[1])>>]
    ELSE LET rest == descend_toward(Tail(target), next_record(base_record, target[1]))
         IN  [status |-> rest.status,
              records |-> IF rest.status = "ok"
                          THEN <<next_record(base_record, target[1])>> \o rest.records
                          ELSE <<>>]

\* extract_record(root_record, checksum_file, target_path), rel_path the
\* target's path below the directory of the store: the list of the Records
\* from the root Record to the target's.
extract_record(root_record, rel_path) ==
    IF rel_path = <<>> THEN [status |-> "ok", records |-> <<root_record>>]
    ELSE LET below == descend_toward(rel_path, root_record)
         IN  [status |-> below.status,
              records |-> IF below.status = "ok" THEN <<root_record>> \o below.records
                          ELSE <<>>]

\* root with the Record at path p replaced by rec (the Records are shared
\* mutable dicts: a change to one is a change to the tree).
RECURSIVE SetAt(_, _, _)
SetAt(root, p, rec) ==
    IF p = <<>> THEN rec
    ELSE [root EXCEPT !.subs =
             PutKey(@, Head(p), SetAt(GetKey(root.subs, Head(p)), Tail(p), rec))]

\* The paths of all Records of the tree below rec, rec at path p.
RECURSIVE RecPaths(_, _)
RecPaths(rec, p) ==
    {p} \cup UNION {RecPaths(rec.subs[i].v, Append(p, rec.subs[i].k)) : i \in 1..Len(rec.subs)}

\* "MD5", "MD5-files_only" and "n_files" of every Record of a tree, by the
\* Record's path (a dict has no order).
Hashes(rec) ==
    [q \in RecPaths(rec, <<>>) |->
        [md5 |-> RecAt(rec, q).md5, fmd5 |-> RecAt(rec, q).fmd5, n |-> RecAt(rec, q).n]]

(***************************************************************************)
(* enumerate_dir                                                           *)
(***************************************************************************)
\* The orders os.listdir may return the entries of a directory in.
ListOrders ==
    {<<"a", "b", "c", "d", STORE>>, <<STORE, "d", "c", "b", "a">>}

\* os.listdir(dir): the entries present, in the order the filesystem gives.
ListDir(d, dir, hasStore, ord) ==
    LET Present(name) ==
            IF name = STORE /\ dir = <<>> THEN hasStore
            ELSE EntryAt(d, Append(dir, name)) # "none"
    IN  SelectSeq(ord, Present)

\* list.sort() left out of enumerate_dir.
Sort_listdir_order(s) == s

\* list.sort(): ascending code-point order (the names of a directory differ).
RECURSIVE Sort(_)
Sort(s) ==
    IF s = <<>> THEN <<>>
    ELSE LET i == CHOOSE i \in 1..Len(s) : \A j \in 1..Len(s) : Rank(s[i]) <= Rank(s[j])
         IN  <<s[i]>> \o Sort(SubSeq(s, 1, i - 1) \o SubSeq(s, i + 1, Len(s)))

enumerate_dir(d, dir, hasStore, ord) ==
    LET listing == ListDir(d, dir, hasStore, ord)
        IsSub(name) == EntryAt(d, Append(dir, name)) = "dir"
        IsNotSub(name) == ~IsSub(name)
    IN  [files |-> Sort(SelectSeq(listing, IsNotSub)),
         subdirectories |-> Sort(SelectSeq(listing, IsSub))]

(***************************************************************************)
(* find_checksum_file and read_checksum_file.  The store of a scope is     *)
(* kept apart from its disk (store[s]); an entry of the disk that has the  *)
(* store's file name is a file the user put into a subdirectory.           *)
(***************************************************************************)
\* find_checksum_file(starting): the nearest directory, from `starting` up
\* to the scope root, that holds an entry of the store's file name.
RECURSIVE find_checksum_file(_, _, _)
find_checksum_file(d, hasStore, starting) ==
    IF starting = <<>> THEN [found |-> hasStore, dir |-> <<>>]
    ELSE IF EntryAt(d, Append(starting, STORE)) # "none"
    THEN [found |-> TRUE, dir |-> starting]
    ELSE find_checksum_file(d, hasStore, Parent(starting))

\* read_checksum_file raises on the file found for `starting`: json.load
\* of a file of the user's (its content is no JSON document).
UnreadableStore(d, hasStore, starting) ==
    LET f == find_checksum_file(d, hasStore, starting)
    IN  f.found /\ f.dir # <<>>

(***************************************************************************)
(* Calculator.calculate_branch.  ctx holds what the pass does not change:  *)
(* cont (continue_previous), detail (detail_files), d (the disk),          *)
(* hasStore (the store file is in the scope root), ord, track, and bad:    *)
(* the path of the file whose calculate_md5 raises (NoBad: of no file).    *)
(* The result is the Record after the call, or as it is when the error is  *)
(* raised (status), and snaps, the states of the Record at each point of   *)
(* the call where _do_occasion may run, in order (left empty when          *)
(* ctx.track is off: the caller does not read them).                       *)
(***************************************************************************)
NoBad == <<>>    \* no file has the path of a directory

\* calculate_md5(dir, name) raises RuntimeError: the hashing of the file
\* fails for good.
HashingFails(ctx, dir, name) == ctx.bad = Append(dir, name)

RECURSIVE calculate_branch(_, _, _, _)
RECURSIVE SubdirLoop(_, _, _, _, _, _)
RECURSIVE FileLoop(_, _, _, _, _, _)

\* The skip of the store's file name at every level.
SkipsStoreFile_at_any_level(level, name) == name = STORE

\* if level == 0 and name == "tree_checksum.json": continue
SkipsStoreFile(level, name) == level = 0 /\ name = STORE

\* Continue mode forgotten: every subdirectory gets a new Record.
sub_record_always_new(cont, record, name) == EmptyRec

\* The Record a subdirectory is calculated into: a new one, or in continue
\* mode the one the parent already holds for it.
sub_record_for(cont, record, name) ==
    IF ~cont \/ ~HasKey(record.subs, name)
    THEN EmptyRec
    ELSE GetKey(record.subs, name)

\* The state of the loop over the subdirectories after `name`, whose
\* calculate_branch gave `child`: the error it raised ends the loop.
SubdirDone(st, name, child, track) ==
    LET ck1 == Update(st.checksum, Encode(name))
        childSnaps ==
            [j \in 1..Len(child.snaps) |->
                [st.record EXCEPT !.subs = PutKey(@, name, child.snaps[j])]]
        rec2 == [st.record EXCEPT !.subs = PutKey(@, name, child.record)]
    IN  IF child.status # "ok"
        THEN [record |-> rec2, checksum |-> ck1,
              snaps |-> IF track THEN st.snaps \o childSnaps ELSE <<>>,
              status |-> child.status]
        ELSE [record |-> rec2, checksum |-> Update(ck1, ReadMD5(child.record)),
              snaps |-> IF track THEN st.snaps \o childSnaps \o <<rec2>> ELSE <<>>,
              status |-> "ok"]

\* for name in subdirectories: ...   st = [record, checksum, snaps, status]
SubdirLoop(i, subdirectories, st, dir, level, ctx) ==
    IF i > Len(subdirectories) \/ st.status # "ok" THEN st
    ELSE
    LET name == subdirectories[i]
        sub_record == sub_record_for(ctx.cont, st.record, name)
        child ==
            IF sub_record.md5 = NoHash
            THEN calculate_branch(sub_record, Append(dir, name), level + 1, ctx)
            ELSE [record |-> sub_record, snaps |-> <<>>, status |-> "ok"]
    IN  SubdirLoop(i + 1, subdirectories,
                   SubdirDone(st, name, child, ctx.track),
                   dir, level, ctx)

\* The name of the file folded into the files hash before its content hash.
FoldFile_with_name(fileMD5, name, this_md5) ==
    Update(Update(fileMD5, Encode(name)), HexDigest(this_md5))

\* fileMD5.update(this_md5.hexdigest().encode("utf-8"))
FoldFile(fileMD5, name, this_md5) == Update(fileMD5, HexDigest(this_md5))

\* for name in files: ...   st = [record, fileMD5, n_files, snaps, status]
FileLoop(i, files, st, dir, level, ctx) ==
    IF i > Len(files) \/ st.status # "ok" THEN st
    ELSE
    LET name == files[i]
        this_md5 == calculate_md5(ctx.d, dir, name)
        rec1 ==
            IF ctx.detail
            THEN [st.record EXCEPT !.fl = PutKey(@, name, HexDigest(this_md5))]
            ELSE st.record
    IN  IF SkipsStoreFile(level, name)
        THEN FileLoop(i + 1, files, st, dir, level, ctx)
        ELSE IF HashingFails(ctx, dir, name)
        THEN [st EXCEPT !.status = "RuntimeError"]
        ELSE FileLoop(i + 1, files,
                      [record |-> rec1,
                       fileMD5 |-> FoldFile(st.fileMD5, name, this_md5),
                       n_files |-> st.n_files + 1,
                       snaps |-> IF ctx.track THEN Append(st.snaps, rec1) ELSE <<>>,
                       status |-> "ok"],
                      dir, level, ctx)

\* record["n_files"], record["MD5-files_only"] and record["MD5"] are set
\* once the loop over the files is over (s2), unless it raised; checksum
\* is the hash object after the subdirectories.
BranchDone(checksum, s2) ==
    IF s2.status # "ok"
    THEN [record |-> s2.record, snaps |-> s2.snaps, status |-> s2.status]
    ELSE [record |-> [s2.record EXCEPT
                         !.n = s2.n_files,
                         !.fmd5 = HexDigest(s2.fileMD5),
                         !.md5 = HexDigest(Update(checksum, HexDigest(s2.fileMD5)))],
          snaps |-> s2.snaps, status |-> "ok"]

\* The files of the directory, after the loop over its subdirectories
\* (s1), unless that raised.
BranchFiles(s1, files, dir, level, ctx) ==
    IF s1.status # "ok"
    THEN [record |-> s1.record, snaps |-> s1.snaps, status |-> s1.status]
    ELSE BranchDone(s1.checksum,
             FileLoop(1, files,
                      [record |-> IF ctx.detail
                                  THEN [s1.record EXCEPT !.hasfl = TRUE, !.fl = <<>>]
                                  ELSE s1.record,
                       fileMD5 |-> Md5New, n_files |-> 0,
                       snaps |-> s1.snaps, status |-> "ok"],
                      dir, level, ctx))

calculate_branch(record, dir, level, ctx) ==
    LET e == enumerate_dir(ctx.d, dir, ctx.hasStore, ctx.ord)
        rec0 ==
            IF Len(e.subdirectories) > 0 /\ ~ctx.cont
            THEN [record EXCEPT !.subs = <<>>]
            ELSE record
    IN  BranchFiles(SubdirLoop(1, e.subdirectories,
                               [record |-> rec0, checksum |-> Md5New,
                                snaps |-> IF ctx.track THEN <<record>> ELSE <<>>,
                                status |-> "ok"],
                               dir, level, ctx),
                    e.files, dir, level, ctx)

(***************************************************************************)
(* Calculator.recalculate: the tree hash of a Record from the stored       *)
(* hashes of its subdirectories, in the order the dict iterates them.      *)
(***************************************************************************)
RECURSIVE RecalcLoop(_, _, _)
RecalcLoop(i, subs, checksum) ==
    IF i > Len(subs) THEN checksum
    ELSE RecalcLoop(i + 1, subs,
                    Update(Update(checksum, Encode(subs[i].k)), ReadMD5(subs[i].v)))

\* recalculate building the ancestor's Record anew around its hashes.
recalculate_rebuilds(record) ==
    IF \E i \in 1..Len(record.subs) : record.subs[i].v.md5 = NoHash
    THEN [status |-> "IncompleteRecord", record |-> record]
    ELSE IF record.fmd5 = NoHash
    THEN [status |-> "KeyError", record |-> record]
    ELSE [status |-> "ok",
          record |-> [EmptyRec EXCEPT
              !.md5 = HexDigest(Update(RecalcLoop(1, record.subs, Md5New), record.fmd5)),
              !.fmd5 = record.fmd5, !.n = record.n, !.subs = record.subs]]

\* recalculate without its check of the children.
recalculate_unchecked(record) ==
    IF record.fmd5 = NoHash
    THEN [status |-> "KeyError", record |-> record]
    ELSE [status |-> "ok",
          record |-> [record EXCEPT !.md5 =
              HexDigest(Update(RecalcLoop(1, record.subs, Md5New), record.fmd5))]]

recalculate(record) ==
    IF \E i \in 1..Len(record.subs) : record.subs[i].v.md5 = NoHash
    THEN [status |-> "IncompleteRecord", record |-> record]
    ELSE IF record.fmd5 = NoHash
    THEN [status |-> "KeyError", record |-> record]
    ELSE [status |-> "ok",
          record |-> [record EXCEPT !.md5 =
              HexDigest(Update(RecalcLoop(1, record.subs, Md5New), record.fmd5))]]

(***************************************************************************)
(* calculate_tree                                                          *)
(***************************************************************************)
\* del parent_records[ii]["MD5"] for every strict ancestor of the target.
RECURSIVE StripParents(_, _)
StripParents(root, target) ==
    IF target = <<>> THEN root
    ELSE [root EXCEPT !.md5 = NoHash,
                      !.subs = PutKey(@, Head(target),
                                      StripParents(GetKey(root.subs, Head(target)), Tail(target)))]

\* Every strict ancestor of the target has an "MD5" to delete.
ParentsHaveMD5(root, target) ==
    \A k \in 0..(Len(target) - 1) : RecAt(root, SubSeq(target, 1, k)).md5 # NoHash

\* save_record(final=True): calc.recalculate on the ancestors, the deepest
\* first; k ancestors are left to recalculate.
RECURSIVE RecalcParents(_, _, _)
RecalcParents(root, target, k) ==
    IF k = 0 THEN [status |-> "ok", root |-> root]
    ELSE LET p == SubSeq(target, 1, k - 1)
             r == recalculate(RecAt(root, p))
         IN  IF r.status # "ok" THEN [status |-> r.status, root |-> root]
             ELSE RecalcParents(SetAt(root, p, r.record), target, k - 1)

\* The test of the two flags left out.
BothFlags_ignored(start_new, continue_previous) == FALSE

\* if start_new and continue_previous: raise RuntimeError(...)
BothFlags(start_new, continue_previous) == start_new /\ continue_previous

\* calculate_branch gave `calc` for the target: the error it raised, or
\* save_record(final=True) on the root Record mem0 with the target's
\* Record in it.
TreeDone(base, mem0, target, calc) ==
    LET snaps == [j \in 1..Len(calc.snaps) |-> SetAt(mem0, target, calc.snaps[j])]
        final == RecalcParents(SetAt(mem0, target, calc.record), target, Len(target))
    IN  IF calc.status # "ok"
        THEN [status |-> calc.status, base |-> base, snaps |-> snaps,
              reached |-> FALSE, root |-> SetAt(mem0, target, calc.record)]
        ELSE [status |-> final.status, base |-> base, snaps |-> snaps,
              reached |-> TRUE, root |-> final.root]

\* The outcome of calculate_tree(target, continue_previous, start_new,
\* detail_files) on the store st and the disk d at time t:
\*   status  "ok" or the error raised,
\*   base    the store file as the pass leaves it when it writes nothing,
\*   snaps   the root Records a checkpoint of the pass may write, in order,
\*   reached the pass got as far as calculate_branch returning,
\*   root    the root Record the final save writes (status "ok").
calculate_tree_with(st, target, cont, new, detail, d, ord, t, track, bad) ==
    LET fresh == new \/ ~st.exists
        stamped == [EmptyRec EXCEPT !.cat = t]
        base == IF new THEN [exists |-> FALSE, root |-> EmptyRec] ELSE st
        root0 == IF fresh THEN stamped ELSE st.root
        target_record ==
            IF fresh \/ ~cont THEN stamped ELSE RecAt(root0, target)
        mem0 == IF fresh THEN stamped
                ELSE SetAt(StripParents(root0, target), target, target_record)
        ctx == [cont |-> cont, detail |-> detail, d |-> d,
                hasStore |-> base.exists, ord |-> ord, track |-> track, bad |-> bad]
        Fail(status) == [status |-> status, base |-> st, snaps |-> <<>>,
                         reached |-> FALSE, root |-> st.root]
    IN  IF BothFlags(new, cont) THEN Fail("BothFlags")
        ELSE IF ~new /\ UnreadableStore(d, st.exists, target) THEN Fail("JSONDecodeError")
        ELSE IF ~fresh /\ ~Resolves(st.root, target) THEN Fail("StaleRecord")
        ELSE IF ~fresh /\ ~ParentsHaveMD5(st.root, target) THEN Fail("KeyError")
        ELSE IF ~IsDir(d, target)
        THEN [status |-> "NotADirectory", base |-> base,
              snaps |-> IF track THEN <<mem0>> ELSE <<>>,
              reached |-> FALSE, root |-> st.root]
        ELSE TreeDone(base, mem0, target,
                      calculate_branch(target_record, target, Len(target), ctx))

\* calculate_tree with every file hashed.
calculate_tree(st, target, cont, new, detail, d, ord, t, track) ==
    calculate_tree_with(st, target, cont, new, detail, d, ord, t, track, NoBad)

(***************************************************************************)
(* compare_trees.  A report is the sequence of its lines; a line is        *)
(* [kind, at, name]: what it says, the directory pair it is about (its     *)
(* indentation is one tab per level of `at` below the compared target,     *)
(* one more for the lines under a header), and the subdirectory it names.  *)
(***************************************************************************)
DefaultDepth == 2

Line(kind, at, name) == [kind |-> kind, at |-> at, name |-> name]

NoDifferences == <<Line("No differences found.", <<>>, "")>>

\* The orders a set of names may be iterated in.
SetOrders == {"ascending", "descending"}

\* The names of S in ascending order.
RECURSIVE Ascending(_)
Ascending(S) ==
    IF S = {} THEN <<>>
    ELSE LET m == CHOOSE x \in S : \A y \in S : Rank(x) <= Rank(y)
         IN  <<m>> \o Ascending(S \ {m})

Reverse(s) == [i \in 1..Len(s) |-> s[Len(s) + 1 - i]]

\* The elements of a set in the order the iteration takes them.
SetList(S, iter) == IF iter = "ascending" THEN Ascending(S) ELSE Reverse(Ascending(S))

\* The absent-subdirectory lines written for the first side's
\* subdirectories only.
AbsentLines_first_side_only(A_subdirectories, B_subdirectories, at, kind) ==
    IF kind = "absent from B"
    THEN LET Missing(e) == ~HasKey(B_subdirectories, e.k)
             missing == SelectSeq(A_subdirectories, Missing)
         IN  [i \in 1..Len(missing) |-> Line(kind, at, missing[i].k)]
    ELSE <<>>

\* for name in A_subdirectories: if name not in B_subdirectories: ...
AbsentLines(A_subdirectories, B_subdirectories, at, kind) ==
    LET Missing(e) == ~HasKey(B_subdirectories, e.k)
        missing == SelectSeq(A_subdirectories, Missing)
    IN  [i \in 1..Len(missing) |-> Line(kind, at, missing[i].k)]

RECURSIVE compare_branch(_, _, _, _, _, _)
RECURSIVE CommonLoop(_, _, _, _, _, _, _, _)

\* The depth bound forgotten: every pair of subdirectories is descended into.
Descends_always(level, depth) == TRUE

\* The depth bound one level too deep: level < depth.
Descends_one_deeper(level, depth) == level < depth

\* A pair of subdirectories of a pair at `level` is descended into.
Descends(level, depth) == level + 1 < depth

\* for name in set(A_subdirectories.keys()).intersection(B_subdirectories.keys()): ...
\* msg = [status, lines]
CommonLoop(i, names, msg, at, A_record, B_record, depth, iter) ==
    IF i > Len(names) \/ msg.status # "ok" THEN msg
    ELSE
    LET name == names[i]
        a_record == GetKey(A_record.subs, name)
        b_record == GetKey(B_record.subs, name)
        level == Len(at)
        sub == compare_branch(Append(at, name), a_record, b_record, depth, iter, level + 1)
        next ==
            IF Descends(level, depth)
            THEN [status |-> sub.status, lines |-> msg.lines \o sub.lines]
            ELSE IF a_record.md5 = NoHash \/ b_record.md5 = NoHash
            THEN [status |-> "KeyError", lines |-> msg.lines]
            ELSE IF a_record.md5 # b_record.md5
            THEN [status |-> "ok",
                  lines |-> Append(msg.lines, Line("contains differences", at, name))]
            ELSE msg
    IN  CommonLoop(i + 1, names, next, at, A_record, B_record, depth, iter)

\* The header line put after the lines of the pair.
WithHeader_after(at, msg) == msg \o <<Line("vs", at, "")>>

\* msg = (tab * (level)) + f"{A_name} vs {B_name}:\n" + msg
WithHeader(at, msg) == <<Line("vs", at, "")>> \o msg

\* The number of tabs a line starts with: level for the header of a pair
\* and for the line of a missing checksum, level + 1 for the other lines.
Indentation(line) ==
    IF line.kind \in {"vs", "A does not have a checksum", "B does not have a checksum"}
    THEN Len(line.at)
    ELSE Len(line.at) + 1

\* `at` is the directory pair's path below the compared target, level its
\* length.
compare_branch(at, A_record, B_record, depth, iter, level) ==
    IF A_record.md5 = NoHash
    THEN [status |-> "ok", lines |-> <<Line("A does not have a checksum", at, "")>>]
    ELSE IF B_record.md5 = NoHash
    THEN [status |-> "ok", lines |-> <<Line("B does not have a checksum", at, "")>>]
    ELSE IF A_record.md5 = B_record.md5 /\ A_record.n = B_record.n
    THEN [status |-> "ok", lines |-> <<>>]
    ELSE
    LET files ==
            IF A_record.fmd5 # B_record.fmd5
            THEN <<Line("Files within this folder mismatch.", at, "")>>
            ELSE <<>>
        absent ==
            AbsentLines(A_record.subs, B_record.subs, at, "absent from B")
            \o AbsentLines(B_record.subs, A_record.subs, at, "absent from A")
        both == SetList(Keys(A_record.subs) \cap Keys(B_record.subs), iter)
        common == CommonLoop(1, both,
                             [status |-> "ok", lines |-> files \o absent],
                             at, A_record, B_record, depth, iter)
        msg == IF common.lines = <<>>
               THEN <<Line("The MD5 mismatches but no specific difference was found.", at, "")>>
               ELSE common.lines
    IN  [status |-> common.status, lines |-> WithHeader(at, msg)]

\* The relative paths compared by their number of segments only.
SamePosition_by_depth(A_rel_path, B_rel_path) == Len(A_rel_path) = Len(B_rel_path)

\* not (A_rel_path != B_rel_path): the targets have the same path below the
\* directories of their stores.
SamePosition(A_rel_path, B_rel_path) == A_rel_path = B_rel_path

\* compare_trees(A, B, depth) on the stores stA and stB and the disks dA
\* and dB, with the targets given as paths below the scope roots.
compare_trees(stA, stB, dA, dB, A, B, depth, iter) ==
    LET Fail(status) == [status |-> status, report |-> <<>>]
    IN  IF ~find_checksum_file(dA, stA.exists, A).found
           \/ ~find_checksum_file(dB, stB.exists, B).found
        THEN Fail("StoreNotFound")
        ELSE IF UnreadableStore(dA, stA.exists, A) \/ UnreadableStore(dB, stB.exists, B)
        THEN Fail("JSONDecodeError")
        ELSE IF ~Resolves(stA.root, A) \/ ~Resolves(stB.root, B) THEN Fail("StaleRecord")
        ELSE IF ~SamePosition(A, B) THEN Fail("PathMismatch")
        ELSE LET result == compare_branch(<<>>, RecAt(stA.root, A), RecAt(stB.root, B),
                                          depth, iter, 0)
             IN  IF result.status # "ok" THEN Fail(result.status)
                 ELSE [status |-> "ok",
                       report |-> IF result.lines = <<>> THEN NoDifferences
                                  ELSE result.lines]

(***************************************************************************)
(* update_copy.  The source and the destination directory of a pair have   *)
(* the same path below their scope roots (the targets' relative paths are  *)
(* equal, or update_copy raises before it touches anything).               *)
(* u holds what the update does not change: dry (dry_run), src (the        *)
(* source disk), ord.  A state st of the update is [status, d, rec]: d the *)
(* destination disk, rec the destination Record of the pair at hand.       *)
(***************************************************************************)
\* shutil.copy(src_file, dst_file): onto a directory it copies into it.
CopyFile(d, dir, name, content) ==
    LET p == Append(dir, name)
    IN  IF EntryAt(d, p) # "dir" THEN [status |-> "ok", d |-> WriteEntry(d, p, content)]
        ELSE IF EntryAt(d, Append(p, name)) = "dir"
        THEN [status |-> "IsADirectory", d |-> d]
        ELSE [status |-> "ok", d |-> WriteEntry(d, Append(p, name), content)]

\* shutil.copytree(from_dir, to_dir), both at path p of their disks.
CopyTree(src, d, p) ==
    IF EntryAt(src, p) # "dir" THEN [status |-> "NotADirectory", d |-> d]
    ELSE IF EntryAt(d, p) # "none" THEN [status |-> "FileExists", d |-> d]
    ELSE LET below == {q \in DOMAIN src : IsPrefix(p, q)}
         IN  [status |-> "ok",
              d |-> [q \in DOMAIN d \cup below |-> IF q \in below THEN src[q] ELSE d[q]]]

\* shutil.rmtree(rm_path)
RmTree(d, p) ==
    IF EntryAt(d, p) # "dir" THEN [status |-> "NotADirectory", d |-> d]
    ELSE [status |-> "ok", d |-> WriteEntry(d, p, "none")]

\* for name in SRC_files: ... shutil.copy(src_file, dst_file)
RECURSIVE CopyLoop(_, _, _, _, _, _)
CopyLoop(i, SRC_files, st, dir, level, u) ==
    IF i > Len(SRC_files) \/ st.status # "ok" THEN st
    ELSE LET name == SRC_files[i]
             c == CopyFile(st.d, dir, name, u.src[Append(dir, name)])
         IN  IF SkipsStoreFile(level, name) \/ u.dry
             THEN CopyLoop(i + 1, SRC_files, st, dir, level, u)
             ELSE CopyLoop(i + 1, SRC_files, [st EXCEPT !.status = c.status, !.d = c.d],
                           dir, level, u)

\* for name in DST_files: if name not in SRC_files: os.remove(rm_path)
RECURSIVE RemoveLoop(_, _, _, _, _, _, _)
RemoveLoop(i, DST_files, SRC_files, st, dir, level, u) ==
    IF i > Len(DST_files) THEN st
    ELSE LET name == DST_files[i]
             InSrc == \E j \in 1..Len(SRC_files) : SRC_files[j] = name
         IN  IF SkipsStoreFile(level, name) \/ InSrc \/ u.dry
             THEN RemoveLoop(i + 1, DST_files, SRC_files, st, dir, level, u)
             ELSE RemoveLoop(i + 1, DST_files, SRC_files,
                             [st EXCEPT !.d = WriteEntry(@, Append(dir, name), "none")],
                             dir, level, u)

\* "Update files, if needed"
UpdateFiles(st, dir, level, u) ==
    IF ~IsDir(u.src, dir) \/ ~IsDir(st.d, dir) THEN [st EXCEPT !.status = "NotADirectory"]
    ELSE LET SRC_files == enumerate_dir(u.src, dir, TRUE, u.ord).files
             DST_files == enumerate_dir(st.d, dir, TRUE, u.ord).files
             copied == CopyLoop(1, SRC_files, st, dir, level, u)
         IN  IF copied.status # "ok" THEN copied
             ELSE RemoveLoop(1, DST_files, SRC_files, copied, dir, level, u)

\* The early return of update_branch left out.
AlreadyMatches_never(SRC_record, DST_record) == FALSE

\* "MD5" in DST_record and "n_files" in DST_record
\* and SRC_record["MD5"] == DST_record["MD5"]
\* and SRC_record["n_files"] == DST_record["n_files"]
AlreadyMatches(SRC_record, DST_record) ==
    /\ DST_record.md5 # NoHash /\ DST_record.n # -1
    /\ SRC_record.md5 = DST_record.md5 /\ SRC_record.n = DST_record.n

RECURSIVE update_branch(_, _, _, _, _)
RECURSIVE SrcSubdirLoop(_, _, _, _, _, _)
RECURSIVE RemovedLoop(_, _, _, _, _)

\* for name in SRC_subdirectories: copytree, or update_branch on the pair
SrcSubdirLoop(i, SRC_record, st, dir, level, u) ==
    IF i > Len(SRC_record.subs) \/ st.status # "ok" THEN st
    ELSE
    LET name == SRC_record.subs[i].k
        src_subrecord == SRC_record.subs[i].v
        copied == CopyTree(u.src, st.d, Append(dir, name))
        sub == update_branch(src_subrecord,
                             [st EXCEPT !.rec = GetKey(st.rec.subs, name)],
                             Append(dir, name), level + 1, u)
        next ==
            IF ~HasKey(st.rec.subs, name)
            THEN [st EXCEPT !.status = copied.status, !.d = copied.d]
            ELSE [status |-> sub.status, d |-> sub.d,
                  rec |-> [st.rec EXCEPT !.subs = PutKey(@, name, sub.rec)]]
    IN  SrcSubdirLoop(i + 1, SRC_record, next, dir, level, u)

\* for name in DST_subdirectories: if name not in SRC_subdirectories:
\* rmtree (not in a dry run); the names are popped once the loop is over.
\* names are the keys of DST_subdirectories as the loop started.
RemovedLoop(i, names, SRC_record, st, uDir) ==
    IF i > Len(names) THEN
        LET Kept(e) == HasKey(SRC_record.subs, e.k)
        IN  [st EXCEPT !.rec = [@ EXCEPT !.subs = SelectSeq(@, Kept)]]
    ELSE IF HasKey(SRC_record.subs, names[i]) \/ uDir.dry
    THEN RemovedLoop(i + 1, names, SRC_record, st, uDir)
    ELSE LET r == RmTree(st.d, Append(uDir.dir, names[i]))
         IN  IF r.status # "ok" THEN [st EXCEPT !.status = r.status]
             ELSE RemovedLoop(i + 1, names, SRC_record, [st EXCEPT !.d = r.d], uDir)

\* The destination Record after the forced recompute, or as it is when
\* the recompute raised.
RecomputeDone(st, calc) == [st EXCEPT !.rec = calc.record, !.status = calc.status]

\* calc.calculate_branch(DST_record, DST_path, level), calc = Calculator(True, False)
ForcedRecompute(st, dir, level, u) ==
    IF u.dry THEN st
    ELSE IF ~IsDir(st.d, dir) THEN [st EXCEPT !.status = "NotADirectory"]
    ELSE RecomputeDone(st, calculate_branch(st.rec, dir, level,
                              [cont |-> TRUE, detail |-> FALSE, d |-> st.d,
                               hasStore |-> TRUE, ord |-> u.ord, track |-> FALSE,
                               bad |-> u.bad]))

UpdateSubdirs(SRC_record, st, dir, level, u) ==
    LET s1 == SrcSubdirLoop(1, SRC_record, st, dir, level, u)
        s2 == IF s1.status # "ok" THEN s1
              ELSE RemovedLoop(1, KeySeq(s1.rec.subs), SRC_record, s1,
                               [dry |-> u.dry, dir |-> dir])
    IN  IF s2.status # "ok" THEN s2 ELSE ForcedRecompute(s2, dir, level, u)

update_branch(SRC_record, st, dir, level, u) ==
    LET DST_record == st.rec
        known == DST_record.md5 # NoHash /\ DST_record.n # -1
    IN  IF st.status # "ok" THEN st
        ELSE IF known /\ SRC_record.md5 = NoHash THEN [st EXCEPT !.status = "KeyError"]
        ELSE IF AlreadyMatches(SRC_record, DST_record)
        THEN st
        ELSE IF DST_record.fmd5 # NoHash /\ SRC_record.fmd5 = NoHash
        THEN [st EXCEPT !.status = "KeyError"]
        ELSE IF DST_record.fmd5 = NoHash \/ DST_record.fmd5 # SRC_record.fmd5
        THEN UpdateSubdirs(SRC_record, UpdateFiles(st, dir, level, u), dir, level, u)
        ELSE UpdateSubdirs(SRC_record, st, dir, level, u)

\* update_copy(source, destination, dry_run) on the stores and disks of the
\* two scopes: [status, d, root], d the destination disk it leaves and root
\* the destination root Record it saves (status "ok").
update_copy_with(stSrc, stDst, dSrc, dDst, source, destination, dry_run, ord, bad) ==
    LET Fail(status) == [status |-> status, d |-> dDst, root |-> stDst.root]
    IN  IF ~find_checksum_file(dSrc, stSrc.exists, source).found THEN Fail("StoreNotFound")
        ELSE IF UnreadableStore(dSrc, stSrc.exists, source) THEN Fail("JSONDecodeError")
        ELSE IF ~Resolves(stSrc.root, source) THEN Fail("StaleRecord")
        ELSE IF ~find_checksum_file(dDst, stDst.exists, destination).found
        THEN Fail("StoreNotFound")
        ELSE IF UnreadableStore(dDst, stDst.exists, destination) THEN Fail("JSONDecodeError")
        ELSE IF ~Resolves(stDst.root, destination) THEN Fail("StaleRecord")
        ELSE IF ~SamePosition(source, destination) THEN Fail("PathMismatch")
        ELSE LET done == update_branch(RecAt(stSrc.root, source),
                                       [status |-> "ok", d |-> dDst,
                                        rec |-> RecAt(stDst.root, destination)],
                                       destination, 0,
                                       [dry |-> dry_run, src |-> dSrc, ord |-> ord,
                                        bad |-> bad])
             IN  [status |-> done.status, d |-> done.d,
                  root |-> SetAt(stDst.root, destination, done.rec)]

\* update_copy with every file hashed.
update_copy(stSrc, stDst, dSrc, dDst, source, destination, dry_run, ord) ==
    update_copy_with(stSrc, stDst, dSrc, dDst, source, destination, dry_run, ord, NoBad)

(***************************************************************************)
(* find_duplicates.  An entry is [record, rel_path]; a duplicate is        *)
(* [size, old, new], two entries of the same checksum and size.  acc is    *)
(* [status, duplicates, hashtable], the hashtable a dict from a checksum   *)
(* to the entries seen with it.                                            *)
(***************************************************************************)
\* The pair is listed already as part of a pair higher in the tree.
is_already_duplicate(duplicates, old_entry, new_entry) ==
    \E i \in 1..Len(duplicates) :
        LET existing_A == duplicates[i].old.rel_path
            existing_B == duplicates[i].new.rel_path
        IN  \/ IsPrefix(existing_A, old_entry.rel_path) /\ IsPrefix(existing_B, new_entry.rel_path)
            \/ IsPrefix(existing_A, new_entry.rel_path) /\ IsPrefix(existing_B, old_entry.rel_path)

\* Every pair of an old entry of the same size is appended.
ReportsPair_always(is_within_duplicates, duplicates, old_entry, new_entry) == TRUE

\* if not is_within_duplicates: ... if not is_already_duplicate(old_entry, new_entry):
ReportsPair(is_within_duplicates, duplicates, old_entry, new_entry) ==
    ~is_within_duplicates /\ ~is_already_duplicate(duplicates, old_entry, new_entry)

RECURSIVE collect_checksums(_, _, _, _)
RECURSIVE CollectSubdirectories(_, _, _, _, _)

\* for name in subdirectories: collect_checksums(rel_path / name, ...)
CollectSubdirectories(i, subdirectories, rel_path, is_within_duplicates, acc) ==
    IF i > Len(subdirectories) \/ acc.status # "ok" THEN acc
    ELSE CollectSubdirectories(i + 1, subdirectories, rel_path, is_within_duplicates,
             collect_checksums(Append(rel_path, subdirectories[i].k), subdirectories[i].v,
                               is_within_duplicates, acc))

collect_checksums(rel_path, record, is_within_duplicates, acc) ==
    IF record.size = -1 THEN [acc EXCEPT !.status = "KeyError"]
    ELSE IF record.size < 1 THEN acc
    ELSE IF record.md5 = NoHash THEN [acc EXCEPT !.status = "KeyError"]
    ELSE
    LET new_entry == [record |-> record, rel_path |-> rel_path]
        seen == HasKey(acc.hashtable, record.md5)
        olds == IF seen THEN GetKey(acc.hashtable, record.md5) ELSE <<>>
        same == {j \in 1..Len(olds) : olds[j].record.size = record.size}
        found == seen /\ ~is_within_duplicates /\ same # {}
        old_entry == olds[CHOOSE j \in same : \A k \in same : j <= k]
        duplicates ==
            IF seen /\ same # {}
               /\ ReportsPair(is_within_duplicates, acc.duplicates, old_entry, new_entry)
            THEN Append(acc.duplicates,
                        [size |-> record.size, old |-> old_entry, new |-> new_entry])
            ELSE acc.duplicates
    IN  CollectSubdirectories(1, record.subs, rel_path, is_within_duplicates \/ found,
            [status |-> "ok", duplicates |-> duplicates,
             hashtable |-> PutKey(acc.hashtable, record.md5, Append(olds, new_entry))])

\* The paths of the entries of the lists of the hashtable, from its i-th
\* checksum on.
RECURSIVE Appended(_, _)
Appended(hashtable, i) ==
    IF i > Len(hashtable) THEN <<>>
    ELSE [j \in 1..Len(hashtable[i].v) |-> hashtable[i].v[j].rel_path]
         \o Appended(hashtable, i + 1)

\* find_duplicates(A) on the store st and the disk d: [status, duplicates],
\* the duplicates as [old, new], the two paths of a line of duplicates.csv
\* (the sort by size leaves pairs of the same size in their order).
find_duplicates(st, d, A) ==
    LET Fail(status) == [status |-> status, duplicates |-> <<>>, appended |-> <<>>]
        done == collect_checksums(A, RecAt(st.root, A), FALSE,
                                  [status |-> "ok", duplicates |-> <<>>, hashtable |-> <<>>])
    IN  IF ~find_checksum_file(d, st.exists, A).found THEN Fail("TypeError")
        ELSE IF UnreadableStore(d, st.exists, A) THEN Fail("JSONDecodeError")
        ELSE IF ~Resolves(st.root, A) THEN Fail("StaleRecord")
        ELSE IF done.status # "ok"
        THEN [status |-> done.status, duplicates |-> <<>>,
              appended |-> Appended(done.hashtable, 1)]
        ELSE [status |-> "ok",
              duplicates |-> [i \in 1..Len(done.duplicates) |->
                                 [old |-> done.duplicates[i].old.rel_path,
                                  new |-> done.duplicates[i].new.rel_path]],
              appended |-> Appended(done.hashtable, 1)]

(***************************************************************************)
(* The state machine                                                       *)
(***************************************************************************)
NoStore == [exists |-> FALSE, root |-> EmptyRec]

\* The tree both scopes start from.
BaseTree ==
    (<<"b">> :> "dir") @@ (<<"b", "a">> :> "c1") @@ (<<"b", "b">> :> "dir")
    @@ (<<"b", "b", "a">> :> "c1")
    @@ (<<"c">> :> "dir") @@ (<<"c", "a">> :> "c1")
    @@ (<<"d">> :> "c1")

\* The edits the user makes: a new first subdirectory, a changed file in a
\* subdirectory, a new file in a subdirectory, a removed subdirectory, a
\* new file in a nested directory, a changed and a new file in the root.
EditMenu ==
    {<<<<"a">>, "dir">>, <<<<"b", "a">>, "c2">>, <<<<"c", "b">>, "c1">>,
     <<<<"c">>, "none">>, <<<<"b", "b", "b">>, "c2">>, <<<<"d">>, "c2">>,
     <<<<"a">>, "c1">>}

NoOp ==
    [op |-> "init", side |-> "A", target |-> <<>>, cont |-> FALSE, new |-> FALSE,
     status |-> "ok", other |-> <<>>, dry |-> FALSE, depth |-> 0, report |-> <<>>,
     checkpoint |-> 0, uninterrupted |-> [status |-> "ok", hashes |-> Hashes(EmptyRec)],
     bad |-> NoBad, memory |-> EmptyRec, hashtable |-> <<>>,
     parallel |-> 1, single |-> [status |-> "ok", hashes |-> Hashes(EmptyRec)]]

Init ==
    /\ disk = [s \in Sides |-> BaseTree]
    /\ store = [s \in Sides |-> NoStore]
    /\ now = 0
    /\ edits = 0
    /\ clean = [s \in Sides |-> FALSE]
    /\ intact = [s \in Sides |-> TRUE]
    /\ last = NoOp
    /\ detail_files \in BOOLEAN

\* The user writes a file, makes a directory or removes an entry (a removed
\* or overwritten directory goes with everything below it).
Edit(s, p, e) ==
    /\ edits < MaxEdits
    /\ Len(p) >= 1
    /\ IsDir(disk[s], Parent(p))
    /\ EntryAt(disk[s], p) # e
    /\ disk' = [disk EXCEPT ![s] = WriteEntry(@, p, e)]
    /\ edits' = edits + 1
    /\ clean' = [clean EXCEPT ![s] = FALSE]
    /\ last' = [NoOp EXCEPT !.op = "edit", !.side = s]
    /\ UNCHANGED <<store, now, detail_files, intact>>

\* The directories a pass is asked to calculate.
Targets == {<<>>, <<"b">>, <<"b", "b">>, <<"c">>}

\* The model keeps the store of a scope at its scope root: a pass that
\* creates the store is a pass on the scope root.
CalcArgsOk(s, target, new) ==
    /\ target \in Targets
    /\ (new \/ ~store[s].exists) => target = <<>>

\* What a pass that ended with outcome R leaves: the store it saved, or,
\* when it raised an error after calculate_branch started, the store as the
\* last checkpoint wrote it (or as it was, when none was written).  F is R
\* with the checkpoints of the pass.
CalculateEnds(s, target, cont, new, R, F) ==
    /\ IF R.status = "ok"
       THEN store' = [store EXCEPT ![s] = [exists |-> TRUE, root |-> R.root]]
       ELSE \E k \in 0..Len(F.snaps) :
                store' = [store EXCEPT ![s] =
                    IF k = 0 THEN F.base ELSE [exists |-> TRUE, root |-> F.snaps[k]]]
    /\ clean' = [clean EXCEPT ![s] =
           IF R.status = "ok" THEN (@ \/ (target = <<>> /\ ~cont))
           ELSE IF R.status \in {"BothFlags", "JSONDecodeError", "StaleRecord", "KeyError"} THEN @
           ELSE FALSE]
    /\ intact' = [intact EXCEPT ![s] =
           IF R.status # "ok" THEN FALSE
           ELSE IF new \/ ~store[s].exists THEN TRUE
           ELSE @]
    /\ last' = [NoOp EXCEPT !.op = "calculate", !.side = s, !.target = target,
                            !.cont = cont, !.new = new, !.status = R.status]

\* --calculate runs to its end: it saves the store, or raises an error.
Calculate(s, target, cont, new, ord) ==
    /\ CalcArgsOk(s, target, new)
    /\ CalculateEnds(s, target, cont, new,
           calculate_tree(store[s], target, cont, new, detail_files, disk[s], ord,
                          now + 1, FALSE),
           calculate_tree(store[s], target, cont, new, detail_files, disk[s], ord,
                          now + 1, TRUE))
    /\ UNCHANGED <<disk, edits, now, detail_files>>

\* --calculate --new --continue, on any target.
CalculateBothFlags(s, target, ord) ==
    /\ target \in Targets
    /\ CalculateEnds(s, target, TRUE, TRUE,
           calculate_tree(store[s], target, TRUE, TRUE, detail_files, disk[s], ord,
                          now + 1, FALSE),
           calculate_tree(store[s], target, TRUE, TRUE, detail_files, disk[s], ord,
                          now + 1, TRUE))
    /\ UNCHANGED <<disk, edits, now, detail_files>>

\* What an interrupted pass whose uninterrupted outcome is R leaves: the
\* store as its k-th checkpoint wrote it (k = 0: it wrote none).
CalculateStops(s, target, cont, new, R) ==
    /\ R.reached
    /\ \E k \in 0..Len(R.snaps) :
           /\ store' = [store EXCEPT ![s] =
                  IF k = 0 THEN R.base ELSE [exists |-> TRUE, root |-> R.snaps[k]]]
           /\ last' = [NoOp EXCEPT !.op = "calculate", !.side = s, !.target = target,
                                   !.cont = cont, !.new = new, !.status = "Interrupted",
                                   !.checkpoint = k,
                                   !.uninterrupted =
                                       [status |-> R.status, hashes |-> Hashes(R.root)]]

\* --calculate is interrupted (KeyboardInterrupt) inside calculate_branch:
\* the store is as the last checkpoint wrote it.
CalculateInterrupted(s, target, cont, new, ord) ==
    /\ CalcArgsOk(s, target, new)
    /\ CalculateStops(s, target, cont, new,
           calculate_tree(store[s], target, cont, new, detail_files, disk[s], ord,
                          now + 1, TRUE))
    /\ clean' = [clean EXCEPT ![s] = FALSE]
    /\ intact' = [intact EXCEPT ![s] = FALSE]
    /\ UNCHANGED <<disk, edits, now, detail_files>>

EditFrom(S, menu) ==
    \E s \in S, m \in menu : Edit(s, m[1], m[2])

EditAny(S) == EditFrom(S, EditMenu)

CalculateAny(S) ==
    \E s \in S, target \in Targets, cont \in BOOLEAN, new \in BOOLEAN, ord \in ListOrders :
        Calculate(s, target, cont, new, ord)

InterruptAny(S) ==
    \E s \in S, target \in Targets, cont \in BOOLEAN, new \in BOOLEAN, ord \in ListOrders :
        CalculateInterrupted(s, target, cont, new, ord)

\* compare_trees(A, B, depth): it logs its report (R), or raises an error.
CompareEnds(A, B, depth, R) ==
    /\ last' = [NoOp EXCEPT !.op = "compare", !.target = A, !.other = B, !.depth = depth,
                            !.status = R.status, !.report = R.report]
    /\ UNCHANGED <<disk, store, now, edits, clean, intact, detail_files>>

Compare(A, B, depth, iter) ==
    CompareEnds(A, B, depth,
                compare_trees(store["A"], store["B"], disk["A"], disk["B"], A, B, depth, iter))

\* update_copy(source, destination, dry_run) with outcome R: what it did to
\* the destination tree stays; the destination store is saved when it ends
\* without an error.
UpdateEnds(src, dst, source, destination, dry_run, R) ==
    /\ disk' = [disk EXCEPT ![dst] = R.d]
    /\ store' = [store EXCEPT ![dst] =
           IF R.status = "ok" THEN [exists |-> TRUE, root |-> R.root] ELSE @]
    /\ clean' = [clean EXCEPT ![dst] =
           IF R.status \in {"StoreNotFound", "JSONDecodeError", "StaleRecord", "PathMismatch"}
           THEN @ ELSE FALSE]
    /\ intact' = [intact EXCEPT ![dst] =
           IF R.status \in {"ok", "StoreNotFound", "JSONDecodeError", "StaleRecord", "PathMismatch"}
           THEN @
           ELSE FALSE]
    /\ last' = [NoOp EXCEPT !.op = "update", !.side = dst, !.target = destination,
                            !.other = source, !.dry = dry_run, !.status = R.status]
    /\ UNCHANGED <<now, edits, detail_files>>

UpdateCopy(src, dst, source, destination, dry_run, ord) ==
    UpdateEnds(src, dst, source, destination, dry_run,
               update_copy(store[src], store[dst], disk[src], disk[dst],
                           source, destination, dry_run, ord))

\* The pairs of targets compare and update are asked for: the scope roots,
\* the same subdirectory of both, and two different directories.
TargetPairs == {<<<<>>, <<>>>>, <<<<"b">>, <<"b">>>>, <<<<>>, <<"b">>>>}

Depths == {1, DefaultDepth}

CompareAny ==
    \E tp \in TargetPairs, depth \in Depths, iter \in SetOrders :
        Compare(tp[1], tp[2], depth, iter)

UpdateAny ==
    \E tp \in TargetPairs, dry_run \in BOOLEAN, ord \in ListOrders :
        UpdateCopy("A", "B", tp[1], tp[2], dry_run, ord)

\* The passes the two scopes are calculated with before they are compared.
CalculateFull(S) ==
    \E s \in S, ord \in ListOrders : Calculate(s, <<>>, FALSE, FALSE, ord)

CalculateContinue(S) ==
    \E s \in S, ord \in ListOrders : Calculate(s, <<>>, TRUE, FALSE, ord)

CalculateTargeted(S) ==
    \E s \in S, ord \in ListOrders : Calculate(s, <<"b">>, FALSE, FALSE, ord)

\* The edits before a pass that is interrupted: a new subdirectory and a
\* new file two levels down.
PartialEdits == {<<<<"a">>, "dir">>, <<<<"b", "b", "b">>, "c2">>}

\* A pass on the scope root, in continue mode or not, is interrupted.
InterruptRoot(S) ==
    \E s \in S, cont \in BOOLEAN, ord \in ListOrders :
        CalculateInterrupted(s, <<>>, cont, FALSE, ord)

\* Two scopes, the passes of A interrupted or not, and --compare.
NextPartial ==
    \/ EditFrom(Sides, PartialEdits)
    \/ CalculateFull(Sides)
    \/ InterruptRoot({"A"})
    \/ CompareAny

SpecPartial == Init /\ [][NextPartial]_vars

\* A pass on any target, in any mode, is interrupted and passes in continue
\* mode follow.
ContinueAny(S) ==
    \E s \in S, target \in Targets, ord \in ListOrders : Calculate(s, target, TRUE, FALSE, ord)

\* The edit before a pass that is interrupted: a new file two levels down.
AbortEdits == {<<<<"b", "b", "b">>, "c2">>}

NextAbort ==
    \/ EditFrom({"A"}, AbortEdits)
    \/ CalculateFull({"A"})
    \/ InterruptAny({"A"})
    \/ ContinueAny({"A"})

SpecAbort == Init /\ [][NextAbort]_vars

\* --calculate runs to its end at a time later than every pass before it:
\* datetime.now() gives now + 1, and the clock stays there.
CalculateLater(s, target, cont, new, ord) ==
    /\ now < MaxClock
    /\ CalcArgsOk(s, target, new)
    /\ CalculateEnds(s, target, cont, new,
           calculate_tree(store[s], target, cont, new, detail_files, disk[s], ord,
                          now + 1, FALSE),
           calculate_tree(store[s], target, cont, new, detail_files, disk[s], ord,
                          now + 1, TRUE))
    /\ now' = now + 1
    /\ UNCHANGED <<disk, edits, detail_files>>

\* One scope and its passes, in every mode and on every target, one after
\* the other in time.
NextStamp ==
    \/ EditFrom({"A"}, PartialEdits)
    \/ \E target \in Targets, cont \in BOOLEAN, new \in BOOLEAN, ord \in ListOrders :
           CalculateLater("A", target, cont, new, ord)

SpecStamp == Init /\ [][NextStamp]_vars

\* The files whose hashing may fail.
BadFiles == {<<"d">>, <<"b", "a">>, <<"b", "b", "a">>, <<"b", "b", "b">>, <<"c", "a">>}

\* --calculate raises while it hashes the file `bad` (R, with F its
\* checkpoints): the store is as the last checkpoint wrote it, the root
\* Record in memory is R.root.
CalculateRaises(s, target, cont, new, bad, R, F) ==
    /\ R.status = "RuntimeError"
    /\ \E k \in 0..Len(F.snaps) :
           store' = [store EXCEPT ![s] =
               IF k = 0 THEN F.base ELSE [exists |-> TRUE, root |-> F.snaps[k]]]
    /\ clean' = [clean EXCEPT ![s] = FALSE]
    /\ intact' = [intact EXCEPT ![s] = FALSE]
    /\ last' = [NoOp EXCEPT !.op = "calculate", !.side = s, !.target = target,
                            !.cont = cont, !.new = new, !.status = R.status,
                            !.bad = bad, !.memory = R.root]

CalculateFails(s, target, cont, new, ord, bad) ==
    /\ CalcArgsOk(s, target, new)
    /\ IsFile(disk[s], bad)
    /\ CalculateRaises(s, target, cont, new, bad,
           calculate_tree_with(store[s], target, cont, new, detail_files, disk[s], ord,
                               now + 1, FALSE, bad),
           calculate_tree_with(store[s], target, cont, new, detail_files, disk[s], ord,
                               now + 1, TRUE, bad))
    /\ UNCHANGED <<disk, edits, now, detail_files>>

\* update_copy raises while its forced recompute hashes the file `bad` of
\* the destination: what it did to the destination tree stays, the
\* destination root Record in memory is R.root.
UpdateRaises(dst, source, destination, bad, R) ==
    /\ R.status = "RuntimeError"
    /\ disk' = [disk EXCEPT ![dst] = R.d]
    /\ clean' = [clean EXCEPT ![dst] = FALSE]
    /\ intact' = [intact EXCEPT ![dst] = FALSE]
    /\ last' = [NoOp EXCEPT !.op = "update", !.side = dst, !.target = destination,
                            !.other = source, !.status = R.status,
                            !.bad = bad, !.memory = R.root]
    /\ UNCHANGED <<store, now, edits, detail_files>>

UpdateFails(src, dst, source, destination, ord, bad) ==
    UpdateRaises(dst, source, destination, bad,
                 update_copy_with(store[src], store[dst], disk[src], disk[dst],
                                  source, destination, FALSE, ord, bad))

\* Two scopes, their full passes, and passes of A and updates of B in
\* which the hashing of a file fails.
\* The hashing fails in one pass of A and in one update of B at most.
NextFatal ==
    \/ EditFrom({"A"}, PartialEdits)
    \/ CalculateFull(Sides)
    \/ \E target \in Targets, cont \in BOOLEAN, new \in BOOLEAN, ord \in ListOrders,
          bad \in BadFiles :
           intact["A"] /\ CalculateFails("A", target, cont, new, ord, bad)
    \/ \E tp \in TargetPairs, ord \in ListOrders, bad \in BadFiles :
           intact["B"] /\ UpdateFails("A", "B", tp[1], tp[2], ord, bad)

SpecFatal == Init /\ [][NextFatal]_vars

\* One scope, full passes on it and --calculate with both flags.
NextFlags ==
    \/ EditAny({"A"})
    \/ CalculateFull({"A"})
    \/ \E target \in Targets, ord \in ListOrders : CalculateBothFlags("A", target, ord)

SpecFlags == Init /\ [][NextFlags]_vars

\* One scope and the passes of --calculate on it.
NextCalc ==
    \/ EditAny({"A"})
    \/ CalculateAny({"A"})

SpecCalc == Init /\ [][NextCalc]_vars

\* One scope, its passes and their interruption.
NextResume ==
    \/ EditAny({"A"})
    \/ CalculateAny({"A"})
    \/ InterruptAny({"A"})

SpecResume == Init /\ [][NextResume]_vars

\* The edits that make two scopes differ: a new subdirectory, a new file in
\* a subdirectory, a new file two levels down, a removed subdirectory.
CompareEdits ==
    {<<<<"a">>, "dir">>, <<<<"c", "b">>, "c1">>, <<<<"b", "b", "b">>, "c2">>,
     <<<<"c">>, "none">>}

\* Two scopes, their passes and --compare.
NextCompare ==
    \/ EditFrom(Sides, CompareEdits)
    \/ CalculateFull(Sides)
    \/ CalculateContinue({"A"})
    \/ CalculateTargeted({"A"})
    \/ CompareAny

SpecCompare == Init /\ [][NextCompare]_vars

\* The same, and a file of the name of the new subdirectory.
UpdateEdits == CompareEdits \cup {<<<<"a">>, "c1">>}

\* Two scopes, their full passes and --update from A to B.
NextUpdate ==
    \/ EditFrom(Sides, UpdateEdits)
    \/ CalculateFull(Sides)
    \/ UpdateAny

SpecUpdate == Init /\ [][NextUpdate]_vars

\* find_duplicates(A) on scope s with outcome R: duplicates.csv holds its
\* pairs when it ends without an error.
FindDuplicatesEnds(s, A, R) ==
    /\ last' = [NoOp EXCEPT !.op = "find_duplicates", !.side = s, !.target = A,
                            !.status = R.status, !.report = R.duplicates,
                            !.hashtable = R.appended]
    /\ UNCHANGED <<disk, store, now, edits, clean, intact, detail_files>>

FindDuplicates(s, A) ==
    FindDuplicatesEnds(s, A, find_duplicates(store[s], disk[s], A))

\* One scope, its passes and --find-duplicates.
NextDuplicates ==
    \/ EditAny({"A"})
    \/ CalculateFull({"A"})
    \/ \E A \in Targets : FindDuplicates("A", A)

SpecDuplicates == Init /\ [][NextDuplicates]_vars

\* calculate_md5 on a file with outcome R.
HashFileEnds(file, n_retries, opens, fails, R) ==
    /\ last' = [op |-> "calculate_md5", file |-> file, n_retries |-> n_retries,
                opens |-> opens, fails |-> fails, status |-> R.status, hash |-> R.hash,
                opened |-> R.opened, reads |-> R.reads, chunks |-> R.chunks]
    /\ UNCHANGED <<disk, store, now, edits, clean, intact, detail_files>>

\* One file is hashed, once.
HashFile(file, n_retries, fails) ==
    /\ last.op = "init"
    /\ HashFileEnds(file, n_retries, {}, fails,
                    calculate_md5_open_fcn(file, n_retries, fails))

\* The hashing of one file under every pattern of failing reads.
NextRetry ==
    \E file \in Files, n_retries \in {AUTO} \cup (0..MaxRetries), fails \in SUBSET (1..MaxReads) :
        HashFile(file, n_retries, fails)

SpecRetry == Init /\ [][NextRetry]_vars

\* The calls of _open_fcn that may fail.
Opens == {1, 2, 3}

\* One file is hashed, once, through an _open_fcn that may fail.
HashFileOpening(file, n_retries, opens, fails) ==
    /\ last.op = "init"
    /\ HashFileEnds(file, n_retries, opens, fails,
                    calculate_md5_open_fcn_with(file, n_retries, opens, fails))

\* The hashing of one file under every pattern of failing opens and reads.
NextOpening ==
    /\ last.op = "init"
    /\ \E file \in Files, n_retries \in {AUTO} \cup (0..MaxRetries),
          opens \in SUBSET Opens, fails \in SUBSET (1..MaxReads) :
           HashFileOpening(file, n_retries, opens, fails)

SpecOpening == Init /\ [][NextOpening]_vars

\* The directories whose Record is looked for: those of Targets, a
\* directory the user may create and one that never exists.
StaleTargets == Targets \cup {<<"a">>, <<"b", "c">>}

\* The edits that make a store out of date: a new subdirectory, a removed
\* one.
StaleEdits == {<<<<"a">>, "dir">>, <<<<"c">>, "none">>}

\* extract_record on the store of s, for the directory target.
ExtractRecordEnds(s, target, R) ==
    /\ last' = [NoOp EXCEPT !.op = "extract_record", !.side = s, !.target = target,
                            !.status = R.status, !.report = R.records]
    /\ UNCHANGED <<disk, store, now, edits, clean, intact, detail_files>>

ExtractRecord(s, target) ==
    /\ store[s].exists
    /\ ExtractRecordEnds(s, target, extract_record(store[s].root, target))

\* --calculate, not --new, on a directory the existing store may not know.
CalculateKnown(s, target, cont, ord) ==
    /\ store[s].exists
    /\ CalculateEnds(s, target, cont, FALSE,
           calculate_tree(store[s], target, cont, FALSE, detail_files, disk[s], ord,
                          now + 1, FALSE),
           calculate_tree(store[s], target, cont, FALSE, detail_files, disk[s], ord,
                          now + 1, TRUE))
    /\ UNCHANGED <<disk, edits, now, detail_files>>

\* One scope, its full passes, and the passes and the look-ups of
\* directories its store may not know.
NextStale ==
    \/ EditFrom({"A"}, StaleEdits)
    \/ CalculateFull({"A"})
    \/ \E target \in StaleTargets, cont \in BOOLEAN, ord \in ListOrders :
           CalculateKnown("A", target, cont, ord)
    \/ \E target \in StaleTargets : ExtractRecord("A", target)

SpecStale == Init /\ [][NextStale]_vars

(***************************************************************************)
(* find_checksum_file on paths as the command line gives them.  A path is  *)
(* [abs, segs]: absolute or relative to the working directory, and its     *)
(* segments (names only, no ".." and no symbolic link).  fs is the set of  *)
(* the directories that hold a file of the store's name, each given by its *)
(* segments from the filesystem root.                                      *)
(***************************************************************************)
\* The directories of the filesystem.
FsDirs == {<<>>, <<"a">>, <<"b">>, <<"a", "a">>, <<"a", "b">>, <<"a", "b", "a">>}

\* PurePath.parent: "/" and "." are their own parent.
PathParent(path) == IF path.segs = <<>> THEN path ELSE [path EXCEPT !.segs = Parent(@)]

\* Path.resolve(): a relative path is taken from the working directory.
Resolve(cwd, path) == IF path.abs THEN path.segs ELSE cwd \o path.segs

\* starting.resolve() == starting.parent.resolve()
RootReached(cwd, fs, starting) == Resolve(cwd, starting) = Resolve(cwd, PathParent(starting))

\* find_checksum_file(starting), run in the working directory cwd: the
\* path it returns (found), or None, and the number of its calls.
RECURSIVE find_checksum_file_in(_, _, _, _)
find_checksum_file_in(cwd, fs, starting, calls) ==
    IF Resolve(cwd, starting) \in fs
    THEN [found |-> TRUE, file |-> [starting EXCEPT !.segs = Append(@, STORE)],
          calls |-> calls]
    ELSE IF RootReached(cwd, fs, starting)
    THEN [found |-> FALSE, file |-> starting, calls |-> calls]
    ELSE find_checksum_file_in(cwd, fs, PathParent(starting), calls + 1)

\* find_checksum_file(starting) with outcome R.
LocateEnds(cwd, fs, starting, R) ==
    /\ last' = [op |-> "find_checksum_file", cwd |-> cwd, fs |-> fs,
                starting |-> starting, found |-> R.found, file |-> R.file,
                calls |-> R.calls]
    /\ UNCHANGED <<disk, store, now, edits, clean, intact, detail_files>>

\* The store is looked for once, from a directory that exists.
Locate(cwd, fs, starting) ==
    /\ last.op = "init"
    /\ Resolve(cwd, starting) \in FsDirs
    /\ LocateEnds(cwd, fs, starting, find_checksum_file_in(cwd, fs, starting, 1))

\* The search from every directory, given absolutely or relative to every
\* working directory, with stores in any of the directories.
NextLocate ==
    \E cwd \in FsDirs, fs \in SUBSET FsDirs, abs \in BOOLEAN, segs \in FsDirs :
        Locate(cwd, fs, [abs |-> abs, segs |-> segs])

SpecLocate == Init /\ [][NextLocate]_vars

\* The pairs of targets that compare and update refuse or accept: the same
\* directory of both scopes, directories of different depth, directories
\* of different names, and a directory ("a") the stores may not know.
ErrorPairs ==
    TargetPairs \cup
    {<<<<"b">>, <<"b", "b">>>>, <<<<"b">>, <<"c">>>>, <<<<"a">>, <<"a">>>>,
     <<<<"a">>, <<"b">>>>}

CompareFrom(pairs) ==
    \E tp \in pairs, depth \in Depths, iter \in SetOrders :
        Compare(tp[1], tp[2], depth, iter)

UpdateFrom(pairs) ==
    \E tp \in pairs, dry_run \in BOOLEAN, ord \in ListOrders :
        UpdateCopy("A", "B", tp[1], tp[2], dry_run, ord)

\* The edits before them: a new subdirectory, a new file, a removed
\* subdirectory.
ErrorEdits ==
    {<<<<"a">>, "dir">>, <<<<"c", "b">>, "c1">>, <<<<"c">>, "none">>}

\* Two scopes, with or without a store, and --compare and --update on
\* pairs of targets.
NextErrors ==
    \/ EditFrom(Sides, ErrorEdits)
    \/ CalculateFull(Sides)
    \/ CompareFrom(ErrorPairs)
    \/ UpdateFrom(ErrorPairs)

SpecErrors == Init /\ [][NextErrors]_vars

\* The edits that put a file of the store's name into subdirectories, and
\* a new file beside one.
StoreNameEdits ==
    {<<<<"b", STORE>>, "c1">>, <<<<"b", "b", STORE>>, "c1">>, <<<<"c", STORE>>, "c1">>,
     <<<<"c", STORE>>, "c2">>, <<<<"c", "b">>, "c1">>}

\* Two scopes with files of the store's name, their passes and --update.
NextStoreName ==
    \/ EditFrom(Sides, StoreNameEdits)
    \/ CalculateFull(Sides)
    \/ CalculateTargeted({"A"})
    \/ UpdateAny

SpecStoreName == Init /\ [][NextStoreName]_vars

(***************************************************************************)
(* Reference definitions the properties are stated with.                   *)
(***************************************************************************)
\* The (name, tree_hash) pairs of the entries `names` of the mapping subs.
RECURSIVE FoldHash(_, _)
FoldHash(names, subs) ==
    IF names = <<>> THEN <<>>
    ELSE <<Head(names)>> \o GetKey(subs, Head(names)).md5 \o FoldHash(Tail(names), subs)

\* The combination the specification defines tree_hash as.
Combination(rec) ==
    HexDigest(FoldHash(Ascending(Keys(rec.subs)), rec.subs) \o rec.fmd5)

\* tree_hash, files_hash and n_files at every node of a Record tree.
RECURSIVE HashView(_)
HashView(rec) ==
    [md5 |-> rec.md5, fmd5 |-> rec.fmd5, n |-> rec.n,
     subs |-> [i \in 1..Len(rec.subs) |->
                  [k |-> rec.subs[i].k, v |-> HashView(rec.subs[i].v)]]]

\* The Record a full fresh calculation of directory p of disk d produces.
FreshRec(d, p, ord) ==
    calculate_branch(EmptyRec, p, Len(p),
                     [cont |-> FALSE, detail |-> detail_files, d |-> d,
                      hasStore |-> TRUE, ord |-> ord, track |-> FALSE,
                      bad |-> NoBad]).record

FirstOrder == <<"a", "b", "c", "d", STORE>>

SubdirsOf(d, p) == {n \in Names : EntryAt(d, Append(p, n)) = "dir"}
FilesOf(d, p) == {n \in Names : IsFile(d, Append(p, n))}

\* The last operation was a pass on scope s that ran to its end.
Completed(s) == last.op = "calculate" /\ last.side = s /\ last.status = "ok"

\* The store of s outside the target's subtree, less the tree_hash of the
\* target's ancestors.
RECURSIVE Outside(_, _)
Outside(rec, t) ==
    IF t = <<>> THEN EmptyRec
    ELSE [rec EXCEPT !.md5 = NoHash,
                     !.subs = [i \in 1..Len(rec.subs) |->
                         IF rec.subs[i].k = Head(t)
                         THEN [k |-> rec.subs[i].k, v |-> Outside(rec.subs[i].v, Tail(t))]
                         ELSE rec.subs[i]]]

\* A child of a strict ancestor of t, off the path to t, lacks tree_hash.
SiblingLacksHash(root, t) ==
    \E k \in 0..(Len(t) - 1) :
        LET anc == RecAt(root, SubSeq(t, 1, k))
        IN  \E i \in 1..Len(anc.subs) :
                anc.subs[i].k # t[k + 1] /\ anc.subs[i].v.md5 = NoHash

\* Every Record of the store of s describes a directory of the disk as a
\* fresh calculation would, but for the tree_hash of the strict ancestors of t.
UpToDateBut(s, t) ==
    \A q \in RecPaths(store[s].root, <<>>) :
        /\ IsDir(disk[s], q)
        /\ LET r == RecAt(store[s].root, q)
               f == FreshRec(disk[s], q, FirstOrder)
           IN  /\ Keys(r.subs) = Keys(f.subs)
               /\ r.fmd5 = f.fmd5
               /\ r.n = f.n
               /\ (IsPrefix(q, t) /\ q # t) \/ r.md5 = f.md5

(***************************************************************************)
(* Properties of --calculate                                               *)
(***************************************************************************)
\* C1: after any sequence of passes that all ran to their end, every stored
\* Record with a tree_hash has it equal to the combination, in the sorted
\* order of the subdirectory names, of the (name, tree_hash) of every entry
\* of its subdirectories mapping, followed by its files_hash.
C1_TreeHashIsSortedCombination ==
    \A s \in Sides :
        (store[s].exists /\ intact[s]) =>
            \A q \in RecPaths(store[s].root, <<>>) :
                LET r == RecAt(store[s].root, q)
                IN  r.md5 # NoHash => r.md5 = Combination(r)

\* C2: a non-continue pass that ran to its end stored, at every node of its
\* target, the tree_hash, files_hash and n_files that a calculation of the
\* same tree yields under every order the filesystem may list entries in.
C2_EnumerationOrderIrrelevant ==
    \A s \in Sides :
        (Completed(s) /\ ~last.cont) =>
            \A ord \in ListOrders :
                HashView(FreshRec(disk[s], last.target, ord))
                    = HashView(RecAt(store[s].root, last.target))

\* Such a pass over a directory with two subdirectories and two files.
C2_Witness ==
    \E s \in Sides :
        /\ Completed(s) /\ ~last.cont
        /\ Cardinality(SubdirsOf(disk[s], last.target)) >= 2
        /\ Cardinality(FilesOf(disk[s], last.target)) >= 2

\* C7: a continue pass that ran to its end on an existing store leaves the
\* Record of every subdirectory of its target that had a tree_hash as it
\* was, gives every other subdirectory on disk a Record with a tree_hash,
\* and stores as the target's tree_hash the combination of the hashes its
\* mapping then holds for the subdirectories on disk.
C7_ContinueSkipsHashed ==
    [][\A s \in Sides :
          (last'.op = "calculate" /\ last'.side = s /\ last'.status = "ok"
              /\ last'.cont /\ store[s].exists) =>
              LET t == last'.target
                  pre == RecAt(store[s].root, t)
                  post == RecAt(store'[s].root, t)
                  dirs == SubdirsOf(disk[s], t)
              IN  /\ \A n \in dirs :
                        /\ HasKey(post.subs, n)
                        /\ IF HasKey(pre.subs, n) /\ GetKey(pre.subs, n).md5 # NoHash
                           THEN GetKey(post.subs, n) = GetKey(pre.subs, n)
                           ELSE GetKey(post.subs, n).md5 # NoHash
                  /\ post.md5 = HexDigest(FoldHash(Ascending(dirs), post.subs) \o post.fmd5)
      ]_vars

\* A continue pass on the root found "a" new and "b" modified since it was
\* hashed: "a" has a tree_hash, "b" holds the hash of its former content.
C7_Witness ==
    \E s \in Sides :
        /\ Completed(s) /\ last.cont /\ last.target = <<>>
        /\ KeySeq(store[s].root.subs) = <<"b", "c", "a">>
        /\ GetKey(store[s].root.subs, "a").md5 # NoHash
        /\ IsDir(disk[s], <<"b">>)
        /\ GetKey(store[s].root.subs, "b").md5 # FreshRec(disk[s], <<"b">>, FirstOrder).md5

\* C8: a targeted pass on a strict subdirectory that ran to its end changes
\* nothing of the store outside the target's subtree but the tree_hash of
\* the target's ancestors: their files_hash, n_files, file listing and
\* every sibling subtree stay as they were.
C8_TargetedTouchesOnlyTarget ==
    [][\A s \in Sides :
          (last'.op = "calculate" /\ last'.side = s /\ last'.status = "ok"
              /\ last'.target # <<>>) =>
              Outside(store'[s].root, last'.target) = Outside(store[s].root, last'.target)
      ]_vars

\* After a targeted pass the root still counts the files it had when it
\* was calculated, not the file added to it since.
C8_Witness ==
    \E s \in Sides :
        /\ Completed(s) /\ last.target # <<>>
        /\ store[s].root.n >= 0
        /\ store[s].root.n < Cardinality(FilesOf(disk[s], <<>>))

\* C9: after a targeted pass on t that ran to its end, when the store
\* outside the ancestors' tree_hash describes the disk as it is, the
\* tree_hash of every ancestor of t is the one a full fresh calculation of
\* the tree gives it.
C9_AncestorsMatchFresh ==
    \A s \in Sides :
        (Completed(s) /\ last.target # <<>> /\ UpToDateBut(s, last.target)) =>
            \A k \in 0..(Len(last.target) - 1) :
                LET q == SubSeq(last.target, 1, k)
                IN  RecAt(store[s].root, q).md5 = FreshRec(disk[s], q, FirstOrder).md5

\* C10: a targeted pass whose ancestors all had a tree_hash fails with
\* IncompleteRecord exactly when a child of an ancestor, off the path to
\* the target, lacks tree_hash; and no stored tree_hash was ever computed
\* from the read of a tree_hash that a child Record lacks.
C10_NoHashFromIncompleteChild ==
    \A s \in Sides :
        /\ (last.op = "calculate" /\ last.side = s /\ last.target # <<>>
               /\ last.status \in {"ok", "IncompleteRecord"}) =>
               (last.status = "IncompleteRecord"
                   <=> SiblingLacksHash(store[s].root, last.target))
        /\ \A q \in RecPaths(store[s].root, <<>>) :
               \A i \in 1..Len(RecAt(store[s].root, q).md5) :
                   RecAt(store[s].root, q).md5[i] # "KeyError"

\* A targeted pass failed with IncompleteRecord.
C10_Witness ==
    \E s \in Sides :
        /\ last.op = "calculate" /\ last.side = s /\ last.target # <<>>
        /\ last.status = "IncompleteRecord"
        /\ SiblingLacksHash(store[s].root, last.target)

(***************************************************************************)
(* Properties of --compare and --update                                    *)
(***************************************************************************)
\* The entries of disk d below directory t, by their paths below t.
TreeAt(d, t) ==
    LET below == {q \in DOMAIN d : IsPrefix(t, q) /\ q # t}
    IN  {<<SubSeq(q, Len(t) + 1, Len(q)), d[q]>> : q \in below}

\* The store of s holds what a full fresh calculation of its tree gives.
Fresh(s) ==
    /\ store[s].exists
    /\ HashView(store[s].root) = HashView(FreshRec(disk[s], <<>>, FirstOrder))

\* Every Record of the store of s has a tree_hash and describes a directory
\* of the disk: its subdirectories, its files_hash and its n_files.
DescribesDisk(s) ==
    /\ store[s].exists
    /\ \A q \in RecPaths(store[s].root, <<>>) :
           /\ IsDir(disk[s], q)
           /\ LET r == RecAt(store[s].root, q)
                  f == FreshRec(disk[s], q, FirstOrder)
              IN  /\ r.md5 # NoHash
                  /\ Keys(r.subs) = Keys(f.subs)
                  /\ r.fmd5 = f.fmd5
                  /\ r.n = f.n

\* The last operation was a compare of the same directory t of both scopes
\* that gave a report.
Compared(t) ==
    last.op = "compare" /\ last.status = "ok" /\ last.target = t /\ last.other = t

\* C3: two identical trees whose stores, each produced by passes that ran
\* to their end, describe them: compare reports no differences, at the
\* scope roots and at the same subdirectory of both.
C3_IdenticalTreesNoDifferences ==
    \A t \in Targets :
        (Compared(t) /\ IsDir(disk["A"], t) /\ TreeAt(disk["A"], t) = TreeAt(disk["B"], t)
            /\ intact["A"] /\ intact["B"] /\ DescribesDisk("A") /\ DescribesDisk("B")) =>
            last.report = NoDifferences

\* C4: an update that is no dry run and ends without an error, between two
\* trees whose stores are up to date, leaves stores that compare reports no
\* differences for.
C4_UpdateThenNoDifferences ==
    [][(last'.op = "update" /\ last'.status = "ok" /\ ~last'.dry
            /\ Fresh("A") /\ Fresh("B")) =>
           \A depth \in Depths, iter \in SetOrders :
               compare_trees(store'["A"], store'["B"], disk'["A"], disk'["B"],
                             last'.other, last'.target,
                             depth, iter).report = NoDifferences
      ]_vars

\* C5: a dry run that ends without an error changes neither the
\* destination tree nor the destination store.
C5_DryRunChangesNothing ==
    [][(last'.op = "update" /\ last'.status = "ok" /\ last'.dry) =>
           (disk' = disk /\ store' = store)
      ]_vars

\* The trees differ in one file, which B has in directory D and A lacks.
OneFileAdded(D) ==
    \E n \in Names :
        /\ IsFile(disk["B"], Append(D, n))
        /\ disk["A"] = WriteEntry(disk["B"], Append(D, n), "none")

\* The directories the report has a line of kind `kind` for.
LinesAt(kind) ==
    {last.report[i].at : i \in {j \in 1..Len(last.report) : last.report[j].kind = kind}}

Prefixes(p) == {SubSeq(p, 1, k) : k \in 0..Len(p)}

\* The directories strictly below the scope root that a file may be added to.
AddedTo == {<<"b">>, <<"c">>, <<"b", "b">>}

\* The case of C6: both stores up to date, one file added to D in B, and
\* a compare of a directory t that D is below; rel is D's path below t.
C6_Case(t, D) ==
    /\ Compared(t) /\ Fresh("A") /\ Fresh("B")
    /\ OneFileAdded(D) /\ IsPrefix(t, D) /\ t # D

\* C6 as stated, for a compare of the default depth: the files mismatch is
\* reported at D and nowhere else, the tree_hash of D and of every ancestor
\* of D differs, and no line is about a directory off the path to D.
C6_FilesMismatchAtD ==
    \A t \in Targets, D \in AddedTo :
        (C6_Case(t, D) /\ last.depth = DefaultDepth) =>
            LET rel == SubSeq(D, Len(t) + 1, Len(D))
            IN  /\ LinesAt("Files within this folder mismatch.") = {rel}
                /\ \A q \in Prefixes(D) :
                       RecAt(store["A"].root, q).md5 # RecAt(store["B"].root, q).md5
                /\ \A i \in 1..Len(last.report) : last.report[i].at \in Prefixes(rel)

\* C6, with the depth bound: when D is fewer than `depth` levels below the
\* compared directory, the files mismatch is reported at D and nowhere else
\* and the report has a header for each directory on the path to D and no
\* other line; when D is deeper, the report names no files mismatch but
\* says, at the last level it reaches, that the subdirectory on the path to
\* D contains differences.  In both cases the tree_hash of D and of every
\* ancestor of D differs between A and B.
C6_FilesMismatchAtDWithinDepth ==
    \A t \in Targets, D \in AddedTo :
        C6_Case(t, D) =>
            LET rel == SubSeq(D, Len(t) + 1, Len(D))
                reach == IF Len(rel) < last.depth THEN Len(rel) ELSE last.depth - 1
                lines == {last.report[i] : i \in 1..Len(last.report)}
            IN  /\ \A q \in Prefixes(D) :
                       RecAt(store["A"].root, q).md5 # RecAt(store["B"].root, q).md5
                /\ lines =
                       {Line("vs", SubSeq(rel, 1, k), "") : k \in 0..reach}
                       \cup (IF Len(rel) < last.depth
                             THEN {Line("Files within this folder mismatch.", rel, "")}
                             ELSE {Line("contains differences",
                                        SubSeq(rel, 1, reach), rel[reach + 1])})
                /\ Len(last.report) = Cardinality(lines)

\* A file was added to "c" in B, both stores are up to date and the default
\* compare of the scope roots reports the files mismatch at "c".
C6_Witness ==
    /\ C6_Case(<<>>, <<"c">>)
    /\ last.depth = DefaultDepth
    /\ LinesAt("Files within this folder mismatch.") = {<<"c">>}

(***************************************************************************)
(* The store's own file name                                               *)
(***************************************************************************)
\* The files of directory q of disk d that count: every file of q, of the
\* store's name too (the store file of the scope root is no entry of d).
CountedFiles(d, q) ==
    {n \in Names \cup {STORE} : EntryAt(d, Append(q, n)) \in Contents}

\* The content hashes of the files `names` of q, one after the other.
RECURSIVE FoldFiles(_, _, _)
FoldFiles(names, d, q) ==
    IF names = <<>> THEN <<>>
    ELSE HexDigest(<<d[Append(q, Head(names))]>>) \o FoldFiles(Tail(names), d, q)

\* The Record at q counts and hashes exactly the counted files of q in d.
CountsFiles(rec, d, q) ==
    /\ rec.n = Cardinality(CountedFiles(d, q))
    /\ rec.fmd5 = HexDigest(FoldFiles(Ascending(CountedFiles(d, q)), d, q))

\* The directories of disk d at or below t.
DirsBelow(d, t) == {q \in DOMAIN d \cup {<<>>} : IsPrefix(t, q) /\ IsDir(d, q)}

\* The Records of the two stores tell the files of directory q of A from
\* those of B: B lacks the directory, or the files_hash differs.
FilesToldApart(q) ==
    \/ ~IsDir(disk["B"], q)
    \/ RecAt(store["A"].root, q).fmd5 # RecAt(store["B"].root, q).fmd5

\* C11: a pass that ran to its end leaves, at every directory of its
\* target, n_files and files_hash over every file of the directory, a file
\* of the store's name in a subdirectory among them and the store file of
\* the scope root not; an update that is no dry run, between up-to-date
\* stores, leaves in every subdirectory whose files the Records tell apart
\* (the files_hash differs, or the destination lacks the directory) the
\* file of the store's name that the source has there (copied, overwritten
\* or removed), counts and hashes it in the destination's Records, and
\* leaves the destination's store in place.
C11_StoreNameSkippedOnlyAtScopeRoot ==
    [][/\ \A s \in Sides :
             (last'.op = "calculate" /\ last'.side = s /\ last'.status = "ok") =>
                 \A q \in DirsBelow(disk'[s], last'.target) :
                     CountsFiles(RecAt(store'[s].root, q), disk'[s], q)
       /\ (last'.op = "update" /\ last'.status = "ok" /\ ~last'.dry
               /\ Fresh("A") /\ Fresh("B")) =>
              /\ store'["B"].exists
              /\ \A q \in DirsBelow(disk["A"], last'.other) :
                     /\ (q # <<>> /\ FilesToldApart(q)) =>
                            EntryAt(disk'["B"], Append(q, STORE))
                                = EntryAt(disk["A"], Append(q, STORE))
                     /\ CountsFiles(RecAt(store'["B"].root, q), disk'["B"], q)
      ]_vars

\* After one edit, which put a file of the store's name into "c" of A, an
\* update of the scope roots left B with the file, counted in B's store
\* beside the other file of "c"; the store of B's scope root is in place.
C11_Witness ==
    /\ last.op = "update" /\ last.status = "ok" /\ ~last.dry /\ last.target = <<>>
    /\ edits = 1
    /\ EntryAt(disk["A"], <<"c", STORE>>) = "c2"
    /\ EntryAt(disk["B"], <<"c", STORE>>) = "c2"
    /\ GetKey(store["B"].root.subs, "c").n = 2
    /\ store["B"].root.n = 1

(***************************************************************************)
(* Errors of --compare and --update                                        *)
(***************************************************************************)
\* The step is a compare or an update of the targets A (of scope "A": the
\* source) and B (of scope "B": the destination).
Ran(A, B) ==
    \/ last'.op = "compare" /\ last'.target = A /\ last'.other = B
    \/ last'.op = "update" /\ last'.other = A /\ last'.target = B

\* The step gave no report and changed neither a tree nor a store.
NothingDone == last'.report = <<>> /\ disk' = disk /\ store' = store

\* Both stores exist and hold a Record for the targets.
BothResolve(A, B) ==
    /\ store["A"].exists /\ Resolves(store["A"].root, A)
    /\ store["B"].exists /\ Resolves(store["B"].root, B)

\* C12: a compare or an update of two targets whose paths below their
\* stores differ, in depth or in a name, does not succeed, gives no report
\* and changes neither tree nor store; it fails with PathMismatch when
\* both stores hold a Record for their target, and with PathMismatch only
\* when the paths differ.
C12_PathMismatchRejected ==
    [][\A tp \in ErrorPairs :
          Ran(tp[1], tp[2]) =>
              /\ tp[1] # tp[2] => (last'.status # "ok" /\ NothingDone)
              /\ (tp[1] # tp[2] /\ BothResolve(tp[1], tp[2])) => last'.status = "PathMismatch"
              /\ last'.status = "PathMismatch" => tp[1] # tp[2]
      ]_vars

\* An update of "b" of A to "c" of B, both in their stores and B's tree
\* differing from A's, was refused with PathMismatch.
C12_Witness ==
    /\ last.op = "update" /\ last.other = <<"b">> /\ last.target = <<"c">>
    /\ last.status = "PathMismatch" /\ ~last.dry
    /\ Fresh("A") /\ Fresh("B")
    /\ disk["A"] # disk["B"]

\* C13: a compare or an update when a scope has no store fails with
\* StoreNotFound, gives no report and changes neither tree nor store.
C13_StoreNotFound ==
    [][\A tp \in ErrorPairs :
          (Ran(tp[1], tp[2]) /\ (~store["A"].exists \/ ~store["B"].exists)) =>
              (last'.status = "StoreNotFound" /\ NothingDone)
      ]_vars

(***************************************************************************)
(* Retry-tolerant content hashing                                          *)
(***************************************************************************)
\* The retry budget of a file.
Budget(file, n_retries) ==
    IF n_retries = AUTO THEN 1 + (Len(file) \div Gigabyte) ELSE n_retries

\* The reads that failed, of those the hashing made.
Failures == Cardinality(last.fails \cap (1..last.reads))

\* The chunks folded into the hash are the file cut into consecutive
\* pieces: the first starts at offset 0, each next one where the one
\* before it ended, the last ends at the end of the file.
ChunksTile(chunks, size) ==
    /\ \A i \in 1..Len(chunks) :
           /\ chunks[i].n > 0
           /\ chunks[i].at = (IF i = 1 THEN 0 ELSE chunks[i - 1].at + chunks[i - 1].n)
    /\ size = (IF chunks = <<>> THEN 0 ELSE chunks[Len(chunks)].at + chunks[Len(chunks)].n)

\* C14: when no more reads fail than the retry budget allows, the hashing
\* returns the hash of the file read without a failure, and the chunks it
\* folded are the bytes of the file once each, in offset order.
C14_RetryGivesSameHash ==
    (last.op = "calculate_md5" /\ Failures <= Budget(last.file, last.n_retries)) =>
        /\ last.status = "ok"
        /\ last.hash = calculate_md5_internal(last.file, last.n_retries, {}).hash
        /\ last.hash = Update(Md5New, last.file)
        /\ ChunksTile(last.chunks, Len(last.file))

\* Two reads of a file of three units failed, one before the first chunk
\* and one after it; the chunks are of two units and of one.
C14_Witness ==
    /\ last.op = "calculate_md5" /\ last.status = "ok"
    /\ Len(last.file) = 3 /\ Failures = 2
    /\ last.chunks = <<[at |-> 0, n |-> 2], [at |-> 2, n |-> 1]>>

\* C15: when more reads fail than the retry budget allows, the hashing
\* fails with the fatal error and returns no hash; a hash it returns is the
\* hash of the whole file, each byte folded once; and it ends with a hash
\* or with the fatal error, never with the error of a read.
C15_BudgetExceededIsFatal ==
    last.op = "calculate_md5" =>
        /\ Failures > Budget(last.file, last.n_retries) =>
               (last.status = "RuntimeError" /\ last.hash = NoHash)
        /\ last.status = "ok" =>
               (last.hash = Update(Md5New, last.file)
                   /\ ChunksTile(last.chunks, Len(last.file)))
        /\ last.status \in {"ok", "RuntimeError"}
        /\ last.status = "RuntimeError" => last.hash = NoHash

\* The second failing read of a file with a budget of one came after a
\* chunk was folded: the hashing failed and returned no hash.
C15_Witness ==
    /\ last.op = "calculate_md5" /\ last.status = "RuntimeError"
    /\ last.n_retries = 1 /\ Failures = 2
    /\ Len(last.chunks) = 1
    /\ last.hash = NoHash

(***************************************************************************)
(* Properties of --find-duplicates                                         *)
(***************************************************************************)
\* The pairs of directories of disk d, neither inside the other, that hold
\* the same entries, and at least one.
IdenticalSubtrees(d) ==
    {pair \in (DOMAIN d) \X (DOMAIN d) :
        /\ IsDir(d, pair[1]) /\ IsDir(d, pair[2])
        /\ ~IsPrefix(pair[1], pair[2]) /\ ~IsPrefix(pair[2], pair[1])
        /\ TreeAt(d, pair[1]) = TreeAt(d, pair[2])
        /\ TreeAt(d, pair[1]) # {}}

\* C16: find-duplicates on the up-to-date store of a tree in which two
\* separate directories X and Y, and no other two, hold the same entries
\* ends without an error and reports the one pair of X and Y.
C16_OneDuplicatePair ==
    \A X \in DOMAIN disk["A"], Y \in DOMAIN disk["A"] :
        (last.op = "find_duplicates" /\ last.target = <<>> /\ Fresh("A")
            /\ IdenticalSubtrees(disk["A"]) = {<<X, Y>>, <<Y, X>>}) =>
            /\ last.status = "ok"
            /\ Len(last.report) = 1
            /\ {last.report[1].old, last.report[1].new} = {X, Y}

(***************************************************************************)
(* Properties of --compare on Records without a tree_hash                  *)
(***************************************************************************)
\* The pairs of Records a compare to `depth` reaches from the pair (a, b)
\* at path `at` below the targets, by their paths: the pair itself and,
\* when both have a tree_hash and they differ, what it reaches from the
\* same-named children, which at the depth bound is the children alone.
RECURSIVE ReachedPairs(_, _, _, _)
ReachedPairs(a, b, at, depth) ==
    {at} \cup
    (IF a.md5 # NoHash /\ b.md5 # NoHash /\ ~(a.md5 = b.md5 /\ a.n = b.n)
           /\ Len(at) < depth
     THEN UNION {ReachedPairs(GetKey(a.subs, name), GetKey(b.subs, name),
                              Append(at, name), depth) :
                    name \in Keys(a.subs) \cap Keys(b.subs)}
     ELSE {})

\* The last operation was a compare that got as far as the Records of its
\* targets.
ComparedRecords ==
    /\ last.op = "compare"
    /\ last.status \notin {"StoreNotFound", "JSONDecodeError", "StaleRecord", "PathMismatch"}

\* C17: a compare that reaches a pair of Records of which one lacks a
\* tree_hash, at the targets, further down or among the same-named
\* children at the depth bound, does not fail; its report says of that
\* pair that the side has no checksum, and has no line about a directory
\* below that pair.
C17_MissingHashReported ==
    ComparedRecords =>
        LET a == RecAt(store["A"].root, last.target)
            b == RecAt(store["B"].root, last.other)
        IN  \A q \in ReachedPairs(a, b, <<>>, last.depth) :
                (RecAt(a, q).md5 = NoHash \/ RecAt(b, q).md5 = NoHash) =>
                    /\ last.status = "ok"
                    /\ \E i \in 1..Len(last.report) :
                           /\ last.report[i].at = q
                           /\ last.report[i].kind =
                                  (IF RecAt(a, q).md5 = NoHash
                                   THEN "A does not have a checksum"
                                   ELSE "B does not have a checksum")
                    /\ \A i \in 1..Len(last.report) :
                           IsPrefix(q, last.report[i].at) => last.report[i].at = q

(***************************************************************************)
(* Properties of the depth bound of --compare                              *)
(***************************************************************************)
\* The lines of the last report.
ReportLines == {last.report[i] : i \in 1..Len(last.report)}

\* C18: in a compare to `depth` that gives a report, a pair of same-named
\* subdirectories whose Records both have a tree_hash and that is reached
\* at depth D+1 >= depth is not descended into: the report has no line
\* about that pair's own files or subdirectories, and it has the line
\* "contains differences" for that pair, once, exactly when the tree_hashes
\* of its two Records differ.
C18_DepthBound ==
    (last.op = "compare" /\ last.status = "ok") =>
        LET a == RecAt(store["A"].root, last.target)
            b == RecAt(store["B"].root, last.other)
        IN  \A q \in ReachedPairs(a, b, <<>>, last.depth) :
                (Len(q) >= 1 /\ Len(q) >= last.depth
                     /\ RecAt(a, q).md5 # NoHash /\ RecAt(b, q).md5 # NoHash) =>
                    LET named == {i \in 1..Len(last.report) :
                                     /\ last.report[i].at = Parent(q)
                                     /\ last.report[i].name = q[Len(q)]}
                    IN  /\ \A i \in 1..Len(last.report) : ~IsPrefix(q, last.report[i].at)
                        /\ \A i \in named : last.report[i].kind = "contains differences"
                        /\ Cardinality(named) =
                               (IF RecAt(a, q).md5 # RecAt(b, q).md5 THEN 1 ELSE 0)

\* A compare of the scope roots to the default depth reached the pair b/b
\* at the depth bound, its Records differ and the report says of b that
\* its subdirectory b contains differences; the pair c, one level up, was
\* descended into.
C18_Witness ==
    /\ last.op = "compare" /\ last.status = "ok" /\ last.depth = DefaultDepth
    /\ last.target = <<>> /\ last.other = <<>>
    /\ <<"b", "b">> \in ReachedPairs(store["A"].root, store["B"].root, <<>>, last.depth)
    /\ RecAt(store["A"].root, <<"b", "b">>).md5 # NoHash
    /\ RecAt(store["B"].root, <<"b", "b">>).md5 # NoHash
    /\ RecAt(store["A"].root, <<"b", "b">>).md5 # RecAt(store["B"].root, <<"b", "b">>).md5
    /\ Line("contains differences", <<"b">>, "b") \in ReportLines
    /\ Line("vs", <<"b">>, "") \in ReportLines

(***************************************************************************)
(* Properties of a pass resumed after an interruption                      *)
(***************************************************************************)
\* The last operation was a pass that a checkpoint was written in and that
\* was interrupted after it, and that would have run to its end had it not
\* been interrupted.
AbortedAfterCheckpoint ==
    /\ last.op = "calculate" /\ last.status = "Interrupted"
    /\ last.checkpoint >= 1
    /\ last.uninterrupted.status = "ok"

\* C19: a pass (fresh, default, continue or targeted) is interrupted after
\* a checkpoint was written; a pass in continue mode on the same target
\* that follows it, the tree unchanged and the pass not interrupted in its
\* turn, runs to its end and leaves every
\* Record with the tree_hash, files_hash and n_files the uninterrupted pass
\* would have left.
C19_ResumeCompletes ==
    [][(AbortedAfterCheckpoint
            /\ last'.op = "calculate" /\ last'.cont /\ last'.status # "Interrupted"
            /\ last'.side = last.side /\ last'.target = last.target) =>
           /\ last'.status = "ok"
           /\ Hashes(store'[last.side].root) = last.uninterrupted.hashes
      ]_vars

(***************************************************************************)
(* Properties of calculated_at                                             *)
(***************************************************************************)
\* C20: after a pass (fresh, default, continue or targeted) that ran to
\* its end, the calculated_at of the root Record of the store is the time
\* of that pass, and no other Record of the store has a calculated_at.
C20_StampOnRootOnly ==
    (last.op = "calculate" /\ last.status = "ok") =>
        LET root == store[last.side].root
        IN  /\ root.cat = now
            /\ \A q \in RecPaths(root, <<>>) \ {<<>>} : RecAt(root, q).cat = 0

(***************************************************************************)
(* Properties of --new with --continue                                     *)
(***************************************************************************)
\* C21: --calculate with both --new and --continue fails on the two flags
\* whatever the store and the target directory are (an existing store, a
\* target the store has no Record of, a target that is no directory), and
\* leaves the store file and the tree as they were.
C21_BothFlagsFailFirst ==
    [][(last'.op = "calculate" /\ last'.new /\ last'.cont) =>
           /\ last'.status = "BothFlags"
           /\ store' = store
           /\ disk' = disk
      ]_vars

\* --calculate with both flags was asked for c, which was removed after
\* the store was calculated: --new alone would have deleted the store, and
\* the target is no directory to enumerate.
C21_Witness ==
    /\ last.op = "calculate" /\ last.new /\ last.cont /\ last.status = "BothFlags"
    /\ last.target = <<"c">>
    /\ store["A"].exists /\ Resolves(store["A"].root, <<"c">>)
    /\ ~IsDir(disk["A"], <<"c">>)

(***************************************************************************)
(* Properties of --update                                                  *)
(***************************************************************************)
\* C22: after an update that is no dry run, ends without an error and whose
\* targets are strict subdirectories of their scope roots, the tree_hash of
\* every ancestor Record of the destination target is the combination of
\* the (name, tree_hash) of its children as the store now has them and of
\* its files_hash.
C22_AncestorsConsistentAfterUpdate ==
    (last.op = "update" /\ last.status = "ok" /\ ~last.dry /\ last.target # <<>>) =>
        \A k \in 0..(Len(last.target) - 1) :
            LET r == RecAt(store[last.side].root, SubSeq(last.target, 1, k))
            IN  r.md5 = Combination(r)

\* The destination Record has the tree_hash and the n_files of the source
\* Record.
SameHashAndCount(src, dst) ==
    /\ dst.md5 # NoHash /\ dst.n # -1
    /\ src.md5 = dst.md5 /\ src.n = dst.n

\* The directory pairs an update reaches from the pair of Records (src, dst)
\* at path `at` below the targets: the pair itself and, when update_branch
\* does not return at once, what it reaches from the same-named children.
RECURSIVE UpdatePairs(_, _, _)
UpdatePairs(src, dst, at) ==
    {at} \cup
    (IF SameHashAndCount(src, dst) THEN {}
     ELSE UNION {UpdatePairs(GetKey(src.subs, name), GetKey(dst.subs, name),
                             Append(at, name)) :
                    name \in Keys(src.subs) \cap Keys(dst.subs)})

C24_CompleteOnlyOverComplete ==
    \A s \in Sides :
        store[s].exists =>
            \A q \in RecPaths(store[s].root, <<>>) :
                RecAt(store[s].root, q).md5 # NoHash =>
                    \A p \in RecPaths(RecAt(store[s].root, q), <<>>) :
                        RecAt(RecAt(store[s].root, q), p).md5 # NoHash

(***************************************************************************)
(* Properties of a hashing that fails                                      *)
(***************************************************************************)
\* C25: when the hashing of a file of directory D fails for good, in a
\* pass of any mode or in the forced recompute of an update, the Record of
\* D has no tree_hash at the moment the error is raised.
C25_NoHashOnFailedDirectory ==
    (last.op \in {"calculate", "update"} /\ last.status = "RuntimeError") =>
        /\ Resolves(last.memory, Parent(last.bad))
        /\ RecAt(last.memory, Parent(last.bad)).md5 = NoHash


\* The directories a pass on target t went through: t itself, and every
\* directory on disk below a directory it went through, unless the pass
\* continued a store (pre) whose Record of it had a tree_hash.
RECURSIVE Visited(_, _, _, _, _)
Visited(d, pre, skips, t, p) ==
    /\ IsDir(d, p)
    /\ IsPrefix(t, p)
    /\ \/ p = t
       \/ /\ Visited(d, pre, skips, t, Parent(p))
          /\ ~(skips /\ Resolves(pre, p) /\ RecAt(pre, p).md5 # NoHash)

\* C26: after a pass that ran to its end, the subdirectories mapping of the
\* Record of every directory the pass went through has exactly the names of
\* the subdirectories that directory has on disk, in continue mode too.
C26_MappingIsDiskSubdirectories ==
    [][\A s \in Sides :
          (last'.op = "calculate" /\ last'.side = s /\ last'.status = "ok") =>
              \A p \in DOMAIN disk[s] \cup {<<>>} :
                  Visited(disk[s], store[s].root,
                          last'.cont /\ ~last'.new /\ store[s].exists,
                          last'.target, p) =>
                      /\ Resolves(store'[s].root, p)
                      /\ Keys(RecAt(store'[s].root, p).subs) = SubdirsOf(disk[s], p)
      ]_vars


(***************************************************************************)
(* Properties of the report of --compare                                   *)
(***************************************************************************)
\* Two scopes, their full passes, --update from A to B and --compare.
NextFallback ==
    \/ EditFrom({"A"}, PartialEdits)
    \/ CalculateFull(Sides)
    \/ UpdateAny
    \/ CompareAny

SpecFallback == Init /\ [][NextFallback]_vars

\* C27: between two stores that passes and updates that ran to their end
\* produced, a compare that gives a report never says "The MD5 mismatches
\* but no specific difference was found.".
C27_NoDiagnosticFallback ==
    (last.op = "compare" /\ last.status = "ok") =>
        \A i \in 1..Len(last.report) :
            last.report[i].kind # "The MD5 mismatches but no specific difference was found."


\* The directories a report says have mismatching files, and the
\* subdirectories it says are absent from a side (kind).
MismatchesOf(report) ==
    {report[i].at : i \in {j \in 1..Len(report) :
                              report[j].kind = "Files within this folder mismatch."}}

AbsencesOf(report, kind) ==
    {<<report[i].at, report[i].name>> : i \in {j \in 1..Len(report) : report[j].kind = kind}}

\* The report of the last compare agrees with the report R of the compare
\* of the same two targets given in the other order.
Mirrors(R) ==
    /\ R.status = "ok"
    /\ MismatchesOf(R.report) = MismatchesOf(last.report)
    /\ AbsencesOf(R.report, "absent from A") = AbsencesOf(last.report, "absent from B")
    /\ AbsencesOf(R.report, "absent from B") = AbsencesOf(last.report, "absent from A")
    /\ (R.report = NoDifferences) <=> (last.report = NoDifferences)

\* C28: when compare(A, B) gives a report, compare(B, A) gives one that has
\* "Files within this folder mismatch." for the same directories, a
\* subdirectory absent from A where compare(A, B) has it absent from B and
\* the reverse, and "No differences found." exactly when compare(A, B) has.
C28_CompareIsSymmetric ==
    (last.op = "compare" /\ last.status = "ok") =>
        \A iter \in SetOrders :
            Mirrors(compare_trees(store["B"], store["A"], disk["B"], disk["A"],
                                  last.other, last.target, last.depth, iter))

\* A compare of the scope roots reported mismatching files in a directory
\* and a subdirectory absent from B.
C28_Witness ==
    /\ last.op = "compare" /\ last.status = "ok"
    /\ last.target = <<>> /\ last.other = <<>>
    /\ MismatchesOf(last.report) # {}
    /\ AbsencesOf(last.report, "absent from B") # {}


\* The places in the last report of the lines a pair at q has of its own
\* (its files line and its absent lines) and of the lines of the reports
\* nested in it.
OwnLines(q) ==
    {j \in 1..Len(last.report) :
        /\ last.report[j].at = q
        /\ last.report[j].kind \in {"Files within this folder mismatch.",
                                    "absent from A", "absent from B"}}

NestedLines(q) ==
    {j \in 1..Len(last.report) :
        IsPrefix(q, last.report[j].at) /\ last.report[j].at # q}

\* C29: in a report, the header of a pair at depth D has indentation D and
\* is followed at once by the pair's own lines, at indentation D + 1, the
\* files line first among them, and every line of the reports nested in
\* the pair comes after them.
C29_ReportOrder ==
    (last.op = "compare" /\ last.status = "ok") =>
        \A i \in 1..Len(last.report) :
            last.report[i].kind = "vs" =>
                LET q == last.report[i].at
                    own == OwnLines(q)
                IN  /\ Indentation(last.report[i]) = Len(q)
                    /\ own = (i + 1)..(i + Cardinality(own))
                    /\ \A j \in own :
                          /\ Indentation(last.report[j]) = Len(q) + 1
                          /\ last.report[j].kind = "Files within this folder mismatch."
                                 => j = i + 1
                    /\ \A k \in NestedLines(q) : k > i + Cardinality(own)

\* A report of the scope roots with an absent line of the roots and,
\* nested, the header of c and the files line of c.
C29_Witness ==
    /\ last.op = "compare" /\ last.status = "ok"
    /\ Len(last.report) >= 4
    /\ last.report[1] = Line("vs", <<>>, "")
    /\ OwnLines(<<>>) # {}
    /\ \E k \in NestedLines(<<>>) :
           /\ last.report[k] = Line("vs", <<"c">>, "")
           /\ last.report[k + 1] = Line("Files within this folder mismatch.", <<"c">>, "")


(***************************************************************************)
(* Properties of the search for the store                                  *)
(***************************************************************************)
\* The lengths of the prefixes of the directory `at` that hold a store.
Holders(fs, at) == {k \in 0..Len(at) : SubSeq(at, 1, k) \in fs}

\* C30: the search returns the store file of the nearest directory, from
\* the starting directory up to the filesystem root, that holds one, says
\* that there is none only when none of them holds one, and makes at most
\* one call per directory on that way.
C30_NearestStoreFound ==
    last.op = "find_checksum_file" =>
        LET at == Resolve(last.cwd, last.starting)
            holders == Holders(last.fs, at)
            nearest == CHOOSE k \in holders : \A j \in holders : j <= k
        IN  /\ last.found <=> holders # {}
            /\ last.found =>
                   Resolve(last.cwd, last.file) = Append(SubSeq(at, 1, nearest), STORE)
            /\ last.calls <= Len(at) + 1


(***************************************************************************)
(* Properties of the look-up of a Record in a store                        *)
(***************************************************************************)
\* C31: extract_record gives the root Record followed by one Record per
\* segment of the target, each the entry of the one before it under the
\* next segment; it fails, as StaleRecord, exactly when a segment is no key
\* of the subdirectories of the Record reached, and a pass of --calculate
\* that fails so leaves the store file and every Record as they were.
C31_ChainOrStaleRecord ==
    [][\A s \in Sides :
          /\ (last'.op = "extract_record" /\ last'.side = s) =>
                LET root == store[s].root
                    t == last'.target
                    chain == last'.report
                IN  /\ (last'.status = "StaleRecord") <=> ~Resolves(root, t)
                    /\ last'.status \in {"ok", "StaleRecord"}
                    /\ last'.status = "ok" =>
                          /\ Len(chain) = Len(t) + 1
                          /\ chain[1] = root
                          /\ \A k \in 1..Len(t) :
                                /\ HasKey(chain[k].subs, t[k])
                                /\ chain[k + 1] = GetKey(chain[k].subs, t[k])
                    /\ store' = store
          /\ (last'.op = "calculate" /\ last'.side = s /\ last'.status = "StaleRecord") =>
                /\ ~Resolves(store[s].root, last'.target)
                /\ store' = store
                /\ disk' = disk
          /\ (last'.op = "calculate" /\ last'.side = s /\ ~last'.new /\ store[s].exists
                 /\ ~Resolves(store[s].root, last'.target)) =>
                last'.status = "StaleRecord"
      ]_vars

\* The look-up of b/b in a store that knows it gave the chain of three
\* Records, the last one the hashed Record of b/b.
C31_Witness ==
    /\ last.op = "extract_record" /\ last.status = "ok"
    /\ last.target = <<"b", "b">> /\ Len(last.report) = 3
    /\ last.report[3].md5 # NoHash
    /\ last.report[3] # last.report[2]


(***************************************************************************)
(* --find-duplicates on Records that have a "size".  calculate_branch      *)
(* writes none; the store read here is the store of the scope with, in     *)
(* every Record, the number of the files of its subtree as its size.       *)
(***************************************************************************)
RECURSIVE SizeOf(_)
RECURSIVE SumSizes(_, _)
SumSizes(subs, i) ==
    IF i > Len(subs) THEN 0 ELSE SizeOf(subs[i].v) + SumSizes(subs, i + 1)

\* The number of the files a Record tree counts.
SizeOf(rec) == (IF rec.n < 0 THEN 0 ELSE rec.n) + SumSizes(rec.subs, 1)

\* rec with record["size"] set in each of its Records.
RECURSIVE WithSizes(_)
WithSizes(rec) ==
    [rec EXCEPT !.size = SizeOf(rec),
                !.subs = [i \in 1..Len(rec.subs) |->
                             [k |-> rec.subs[i].k, v |-> WithSizes(rec.subs[i].v)]]]

\* The edits that make subtrees alike or different: a new directory, a
\* file in it, a changed and a new file in c, a subdirectory of c and a
\* file in it (c is then as b is), c removed.
SizedEdits ==
    {<<<<"a">>, "dir">>, <<<<"a", "a">>, "c1">>, <<<<"c", "a">>, "c2">>,
     <<<<"c", "b">>, "c1">>, <<<<"c", "b">>, "dir">>, <<<<"c", "b", "a">>, "c1">>,
     <<<<"c">>, "none">>}

FindDuplicatesSized(s, A) ==
    /\ store[s].exists
    /\ FindDuplicatesEnds(s, A,
           find_duplicates([store[s] EXCEPT !.root = WithSizes(@)], disk[s], A))

\* One scope, its full passes and --find-duplicates on its store with sizes.
NextSized ==
    \/ EditFrom({"A"}, SizedEdits)
    \/ CalculateFull({"A"})
    \/ \E A \in Targets : FindDuplicatesSized("A", A)

SpecSized == Init /\ [][NextSized]_vars

\* The pair (q1, q2) is covered by the reported pair r: each of its
\* directories is one of r's or below it, in one pairing or the other.
Covers(r, q1, q2) ==
    \/ IsPrefix(r.old, q1) /\ IsPrefix(r.new, q2)
    \/ IsPrefix(r.old, q2) /\ IsPrefix(r.new, q1)

\* The Records the walk from the last target is about, by their paths.
WalkedPaths(s) ==
    {last.target \o q : q \in RecPaths(RecAt(store[s].root, last.target), <<>>)}

\* C32: after find-duplicates, every two separate directories of the walk
\* whose Records have the same tree_hash and the same size of one or more
\* are a reported pair or are covered by a reported pair.
C32_EveryEqualPairReported ==
    (last.op = "find_duplicates" /\ last.status = "ok") =>
        \A p \in WalkedPaths("A"), q \in WalkedPaths("A") :
            LET a == WithSizes(RecAt(store["A"].root, p))
                b == WithSizes(RecAt(store["A"].root, q))
            IN  (/\ ~IsPrefix(p, q) /\ ~IsPrefix(q, p)
                 /\ a.md5 = b.md5 /\ a.md5 # NoHash
                 /\ a.size = b.size /\ a.size >= 1) =>
                    \E i \in 1..Len(last.report) : Covers(last.report[i], p, q)


\* C33: no pair that find-duplicates reports is covered by another pair it
\* reports.
C33_NoCoveredPairReported ==
    (last.op = "find_duplicates" /\ last.status = "ok") =>
        \A i \in 1..Len(last.report), j \in 1..Len(last.report) :
            i # j => ~Covers(last.report[i], last.report[j].old, last.report[j].new)

\* The directories b and c are alike, and so are b/b and c/b inside them:
\* the walk of the root reported the pair (b, c) and nothing else.
C33_Witness ==
    /\ last.op = "find_duplicates" /\ last.status = "ok" /\ last.target = <<>>
    /\ last.report = <<[old |-> <<"b">>, new |-> <<"c">>]>>
    /\ Resolves(store["A"].root, <<"c", "b">>)
    /\ RecAt(store["A"].root, <<"b", "b">>).md5 = RecAt(store["A"].root, <<"c", "b">>).md5
    /\ RecAt(store["A"].root, <<"b", "b">>).md5 # NoHash


\* The Records of the store of s that the walk from the last target is to
\* visit and that have a "size" other than zero, by their paths.
ToAppend(s) == {q \in WalkedPaths(s) : RecAt(store[s].root, q).size # 0}

\* C34: find-duplicates on a directory its store knows walks every Record
\* below it to the end, and the hashtable then has one entry, and one only,
\* for each of them whose size is not zero.
C34_EveryRecordAppendedOnce ==
    (/\ last.op = "find_duplicates"
     /\ last.status \notin {"TypeError", "JSONDecodeError", "StaleRecord"}) =>
        /\ last.status = "ok"
        /\ \A q \in ToAppend(last.side) :
               Cardinality({i \in 1..Len(last.hashtable) : last.hashtable[i] = q}) = 1


(***************************************************************************)
(* Properties of the end of the hashing of a file                          *)
(***************************************************************************)
\* C35: the hashing of a file ends, with a hash or with the fatal error,
\* after no more failed reads than its budget and one, whatever reads fail:
\* with a hash only when no more reads failed than the budget, with the
\* error at the failure after the budget's last, and after no more reads
\* than the failed ones, one per unit of the file and the read at its end.
C35_HashingEnds ==
    last.op = "calculate_md5" =>
        /\ last.status \in {"ok", "RuntimeError"}
        /\ Failures <= Budget(last.file, last.n_retries) + 1
        /\ last.status = "ok" => Failures <= Budget(last.file, last.n_retries)
        /\ last.status = "RuntimeError" =>
               (Failures = Budget(last.file, last.n_retries) + 1 /\ last.reads \in last.fails)
        /\ last.reads <= Failures + Len(last.file) + 1

\* With a budget of two, a read failed, a chunk was read, and two more
\* reads failed: the hashing ended with the fatal error at the third.
C35_Witness ==
    /\ last.op = "calculate_md5" /\ last.status = "RuntimeError"
    /\ last.n_retries = 2 /\ Failures = 3
    /\ 1 \in last.fails /\ 2 \notin last.fails
    /\ Len(last.chunks) >= 1


\* The opens and reads that failed, of those the hashing made.
AllFailures ==
    Cardinality(last.opens \cap (1..last.opened)) + Cardinality(last.fails \cap (1..last.reads))

\* C36: when the caller gives no retry budget, the hashing of a file
\* tolerates one failure and one more for each gigabyte of the file,
\* wherever the failures occur, the first open included: it returns the
\* hash when no more opens and reads failed than that, and fails at the
\* failure after.
C36_AutoBudgetEverywhere ==
    (last.op = "calculate_md5" /\ last.n_retries = AUTO) =>
        /\ AllFailures <= 1 + (Len(last.file) \div Gigabyte) => last.status = "ok"
        /\ last.status = "RuntimeError" =>
               AllFailures = 2 + (Len(last.file) \div Gigabyte)

\* The same, for the files whose first open succeeds.
C36_AutoBudgetOnceSized ==
    (last.op = "calculate_md5" /\ last.n_retries = AUTO /\ 1 \notin last.opens) =>
        /\ AllFailures <= 1 + (Len(last.file) \div Gigabyte) => last.status = "ok"
        /\ last.status = "RuntimeError" =>
               AllFailures = 2 + (Len(last.file) \div Gigabyte)


(***************************************************************************)
(* The timing of the checkpoints: Calculator.last_occasion and             *)
(* Calculator.between_occasions under a clock, perf_counter(), in seconds. *)
(* The state of the Calculator is kept in last: clock, last_occasion,      *)
(* between_occasions, the time the last checkpoint took (elapsed) and the  *)
(* elapsed and between_occasions of the checkpoint before it (previous).   *)
(***************************************************************************)
InitialInterval == 10    \* self.between_occasions = 10.0
CheapElapsed == 2        \* if elapsed < 2.0
CheapInterval == 60      \* self.between_occasions = 60.0
IntervalFactor == 25     \* self.between_occasions = elapsed * 25

MaxTime == 240           \* the clock at which the pass is over
Steps == {20, 40}        \* the time between two readings of the clock
Elapsed == {0, 1, 2, 3}  \* the time on_occasion() takes

NoOccasion == [elapsed |-> -1, between_occasions |-> -1]

\* if elapsed < 2.0: self.between_occasions = 60.0
\* else: self.between_occasions = elapsed * 25
between_occasions_after(elapsed) ==
    IF elapsed < CheapElapsed THEN CheapInterval ELSE elapsed * IntervalFactor

\* Calculator.__init__
NewCalculator ==
    /\ last.op = "init"
    /\ last' = [op |-> "Calculator", clock |-> 0, last_occasion |-> 0,
                between_occasions |-> InitialInterval, elapsed |-> -1,
                previous |-> NoOccasion]
    /\ UNCHANGED <<disk, store, now, edits, clean, intact, detail_files>>

\* The pass works for dt seconds and finds the next checkpoint not due:
\* perf_counter() - self.last_occasion > self.between_occasions is false.
Work(dt) ==
    /\ last.op \in {"Calculator", "work", "_do_occasion"}
    /\ last.clock + dt <= MaxTime
    /\ ~(last.clock + dt - last.last_occasion > last.between_occasions)
    /\ last' = [last EXCEPT !.op = "work", !.clock = @ + dt]
    /\ UNCHANGED <<disk, store, now, edits, clean, intact, detail_files>>

\* The pass works for dt seconds and finds the checkpoint due:
\* Calculator._do_occasion, whose on_occasion() takes elapsed seconds.
DoOccasion(dt, elapsed) ==
    /\ last.op \in {"Calculator", "work", "_do_occasion"}
    /\ last.clock + dt <= MaxTime
    /\ last.clock + dt - last.last_occasion > last.between_occasions
    /\ last' = [op |-> "_do_occasion",
                clock |-> last.clock + dt + elapsed,
                last_occasion |-> last.clock + dt,
                between_occasions |-> between_occasions_after(elapsed),
                elapsed |-> elapsed,
                previous |-> IF last.op = "Calculator" \/ last.elapsed = -1
                             THEN NoOccasion
                             ELSE [elapsed |-> last.elapsed,
                                   between_occasions |-> last.between_occasions]]
    /\ UNCHANGED <<disk, store, now, edits, clean, intact, detail_files>>

NextOccasions ==
    \/ NewCalculator
    \/ \E dt \in Steps : Work(dt)
    \/ \E dt \in Steps, elapsed \in Elapsed : DoOccasion(dt, elapsed)

SpecOccasions == Init /\ [][NextOccasions]_vars

\* The Calculator has made a checkpoint.
Timed == last.op \in {"work", "_do_occasion"} /\ last.elapsed # -1

\* The least interval a checkpoint sets, and the interval it sets when it
\* was cheap.
MinInterval == CheapElapsed * IntervalFactor
MaxInterval == CheapInterval

\* C37: after every checkpoint the interval to the next one lies between a
\* fixed minimum and a fixed maximum, the widest being the interval after a
\* cheap checkpoint: of two checkpoints that follow each other, a cheap and
\* an expensive one, the cheap one sets the wider interval.
C37_IntervalBoundedWiderWhenCheap ==
    Timed =>
        /\ last.between_occasions >= MinInterval
        /\ last.between_occasions <= MaxInterval
        /\ (last.previous # NoOccasion /\ last.elapsed < CheapElapsed
                /\ last.previous.elapsed >= CheapElapsed)
               => last.between_occasions > last.previous.between_occasions
        /\ (last.previous # NoOccasion /\ last.elapsed >= CheapElapsed
                /\ last.previous.elapsed < CheapElapsed)
               => last.between_occasions < last.previous.between_occasions

\* The interval after a checkpoint is never under the least interval.
C37_IntervalAtLeastMin ==
    Timed => last.between_occasions >= MinInterval


(***************************************************************************)
(* main --calculate PATH [--new] [--continue] [--parallel N] [--v]         *)
(***************************************************************************)
\* def calculate_tree(target, continue_previous, start_new, detail_files)
CalculateTreeParams == <<"target", "continue_previous", "start_new", "detail_files">>

\* calculate_tree(Path(args.calculate), args.continue_previous,
\*                args.start_new, args.detail_files, args.parallel, args.v)
MainCalculateArgs(target, cont, new, detail, parallel, v) ==
    <<target, cont, new, detail, parallel, v>>

\* The numbers of threads asked for: the default and the one of the tests.
Parallel == {1, 5}

\* main with --calculate: the call of calculate_tree raises TypeError when
\* it passes more arguments than calculate_tree takes; main prints the
\* error and returns.  single is the outcome of calculate_tree(target,
\* continue_previous, start_new, detail_files) on the same store and disk.
MainCalculate(s, target, cont, new, parallel, v, ord) ==
    LET args == MainCalculateArgs(target, cont, new, detail_files, parallel, v)
        R == calculate_tree(store[s], target, cont, new, detail_files, disk[s], ord,
                            now + 1, FALSE)
    IN  /\ CalcArgsOk(s, target, new)
        /\ IF Len(args) > Len(CalculateTreeParams)
           THEN /\ last' = [NoOp EXCEPT !.op = "main", !.side = s, !.target = target,
                                        !.cont = cont, !.new = new,
                                        !.status = "TypeError", !.parallel = parallel,
                                        !.single = [status |-> R.status,
                                                    hashes |-> Hashes(R.root)]]
                /\ UNCHANGED <<store, clean, intact>>
           ELSE CalculateEnds(s, target, cont, new, R,
                    calculate_tree(store[s], target, cont, new, detail_files, disk[s],
                                   ord, now + 1, TRUE))
        /\ UNCHANGED <<disk, edits, now, detail_files>>

\* One scope, its full passes by calculate_tree and its passes by main.
NextMain ==
    \/ EditAny({"A"})
    \/ CalculateFull({"A"})
    \/ \E target \in Targets, cont \in BOOLEAN, new \in BOOLEAN, parallel \in Parallel,
          ord \in ListOrders :
           MainCalculate("A", target, cont, new, parallel, FALSE, ord)

SpecMain == Init /\ [][NextMain]_vars

\* C38: a calculation with more than one thread leaves at every
\* directory the tree hash, the files hash and the number of files the
\* single-threaded calculation of the same tree gives.
C38_ParallelSameAsSingle ==
    (last.op = "main" /\ last.parallel > 1 /\ last.single.status = "ok") =>
        /\ last.status = "ok"
        /\ store[last.side].exists
        /\ Hashes(store[last.side].root) = last.single.hashes


(***************************************************************************)
(* Renamed files and directories                                           *)
(***************************************************************************)
\* The path q after the entry at `from` was renamed to `to`.
RenamedPath(q, from, to) ==
    IF IsPrefix(from, q) THEN to \o SubSeq(q, Len(from) + 1, Len(q)) ELSE q

\* d after the entry at `from` was renamed to `to`: a directory is renamed
\* with everything below it.
Move(d, from, to) ==
    [q2 \in {RenamedPath(q, from, to) : q \in DOMAIN d} |->
        d[CHOOSE q \in DOMAIN d : RenamedPath(q, from, to) = q2]]

\* The user renames an entry within its directory, to a name that is free.
Rename(s, from, to) ==
    /\ Len(from) >= 1 /\ Parent(from) = Parent(to)
    /\ EntryAt(disk[s], from) # "none"
    /\ EntryAt(disk[s], to) = "none"
    /\ disk' = [disk EXCEPT ![s] = Move(@, from, to)]
    /\ clean' = [clean EXCEPT ![s] = FALSE]
    /\ last' = [NoOp EXCEPT !.op = "rename", !.side = s]
    /\ UNCHANGED <<store, now, edits, detail_files, intact>>

\* A second file, of another content, next to the file of c.
RenameEdits == {<<<<"c", "c">>, "c2">>}

\* The renames: of the only file of the root, of the first of the two files
\* of c to a name before and to a name after the second, of a subdirectory
\* of b and of a subdirectory of the root.
RenameMenu ==
    {<<<<"d">>, <<"a">>>>,
     <<<<"c", "a">>, <<"c", "b">>>>, <<<<"c", "a">>, <<"c", "d">>>>,
     <<<<"b", "b">>, <<"b", "c">>>>, <<<<"c">>, <<"a">>>>}

\* Two scopes, the renames in the first, their full passes and the
\* comparison of the two.
NextRename ==
    \/ EditFrom(Sides, RenameEdits)
    \/ \E m \in RenameMenu : Rename("A", m[1], m[2])
    \/ CalculateFull(Sides)
    \/ \E iter \in SetOrders : Compare(<<>>, <<>>, DefaultDepth, iter)

SpecRename == Init /\ [][NextRename]_vars

\* The directories of a disk.
DirsOf(d) == {<<>>} \cup {q \in DOMAIN d : d[q] = "dir"}

\* The contents of the files of a directory, in the order of their names.
RECURSIVE ContentsFrom(_, _, _)
ContentsFrom(d, dir, names) ==
    IF names = <<>> THEN <<>>
    ELSE (IF IsFile(d, Append(dir, names[1]))
          THEN <<d[Append(dir, names[1])]>> ELSE <<>>)
         \o ContentsFrom(d, dir, Tail(names))

FileContents(d, dir) == ContentsFrom(d, dir, <<"a", "b", "c", "d">>)

\* Two disks that differ by the names of files only: the same directories,
\* and in each the same file contents in the order of the file names.
SameButFileNames(d1, d2) ==
    /\ DirsOf(d1) = DirsOf(d2)
    /\ \A dir \in DirsOf(d1) : FileContents(d1, dir) = FileContents(d2, dir)

\* Both stores are of a full pass on the tree as it is.
BothCalculated ==
    /\ clean["A"] /\ clean["B"]
    /\ store["A"].exists /\ store["B"].exists

\* C39: the files hash of a directory is made of the content hashes of
\* its files in the order of their names and of nothing else: two trees
\* that differ only by names of files that keep the files of each
\* directory in their order have the same tree hash, files hash and number
\* of files at every directory, and compare reports no difference between
\* them; two trees that differ by the name of one subdirectory have
\* different tree hashes at its parent.
C39_FileNamesNotHashed ==
    BothCalculated =>
        /\ SameButFileNames(disk["A"], disk["B"]) =>
               /\ Hashes(store["A"].root) = Hashes(store["B"].root)
               /\ (last.op = "compare" /\ last.status = "ok")
                      => last.report = NoDifferences
        /\ \A p \in DirsOf(disk["B"]) : \A x \in Names, y \in Names :
               (/\ EntryAt(disk["B"], Append(p, x)) = "dir"
                /\ EntryAt(disk["B"], Append(p, y)) = "none"
                /\ disk["A"] = Move(disk["B"], Append(p, x), Append(p, y)))
               => RecAt(store["A"].root, p).md5 # RecAt(store["B"].root, p).md5

\* The first of the two files of c, of different contents, was renamed in
\* A to a name that is still before the second; both scopes were
\* calculated and compared, and no difference was found.
C39_Witness ==
    /\ BothCalculated
    /\ last.op = "compare" /\ last.status = "ok" /\ last.report = NoDifferences
    /\ SameButFileNames(disk["A"], disk["B"])
    /\ FileContents(disk["A"], <<"c">>) = <<"c1", "c2">>
    /\ EntryAt(disk["A"], <<"c", "b">>) = "c1"
    /\ EntryAt(disk["B"], <<"c", "a">>) = "c1"
    /\ RecAt(store["A"].root, <<"c">>).fmd5 # NoHash

\* A subdirectory of b was renamed in A, both scopes were calculated: the
\* tree hashes of b differ.
C39_DirectoryRenamed ==
    /\ BothCalculated
    /\ disk["A"] = Move(disk["B"], <<"b", "b">>, <<"b", "c">>)
    /\ RecAt(store["A"].root, <<"b">>).md5 # RecAt(store["B"].root, <<"b">>).md5

=============================================================================
